---- MODULE Spec2Model ----
(***************************************************************************)
(* A model of archguard's rule pipeline: violation keys and baseline       *)
(* comparison (rules/baseline.py), rule evaluation (rules/evaluator.py)    *)
(* and IR validation (ir/validate.py).                                     *)
(*                                                                         *)
(* Python values.  A str is a sequence of tokens (so that str() of a       *)
(* CanonicalId is a concatenation), "" is << >> and None is the reserved   *)
(* sequence None.  A dict is a record; dict.get is DictGet.                *)
(***************************************************************************)
EXTENDS Integers, Sequences, FiniteSets, TLC

VARIABLES
    va, vb,             \* key_for: the two Violation values it is applied to
    ka, kb,             \* key_for: the keys returned
    kf_pc,              \* key_for: "input" | "done"
    current, baseline,  \* BaselineComparer.compare: its two arguments
    result,             \* BaselineComparer.compare: the BaselineResult
    cmp_pc,             \* BaselineComparer.compare: "input" | "done"
    ir,                 \* evaluate: the ArchitectureIR it is called with
    idx,                \* evaluate: the IRIndex
    nrules,             \* evaluate: the number of rules of the RuleSet
    last_rule,          \* evaluate: the rule of the last iteration
    pos,                \* evaluate: the number of rules evaluated
    out,                \* evaluate: the list of violations so far
    contrib,            \* evaluate: what the last iteration extended out by
    ret,                \* evaluate: the tuple returned
    eval_pc,            \* evaluate: "call" | "loop" | "returned" | "raised"
    v_ir,               \* validate_ir: the ArchitectureIR it is called with
    v_ir0,              \* validate_ir: that ArchitectureIR as it was before the call
    v_opts,             \* validate_ir: its opts argument
    v_errors,           \* validate_ir: the list returned
    v_pc,               \* validate_ir: "call" | "returned"
    cfg,                \* scan: the EngineConfig (what scan reads of it)
    selected,           \* scan: the analyzers still to run
    raw_irs,            \* scan: the number of raw IRs collected
    model,              \* scan: whether model is not None
    ruleset,            \* scan: the RuleSet
    engine_errors,      \* scan: the list of EngineError
    violations,         \* scan: the list of violations
    diff,               \* scan: whether diff is not None
    stages,             \* scan: the stages run so far, in order
    failed,             \* scan: the collaborators that raised
    saved,              \* scan: the ref the snapshot was saved under
    report,             \* scan: the Report built
    scan_pc,            \* scan: the statement it is at
    baseline_snapshot,  \* scan: the snapshot loaded from the store, or None
    saves,              \* scan: the number of snapshot_store.save calls made
    store,              \* the snapshot store: the snapshot under every ref it holds
    store0,             \* the snapshot store as it was when scan was called
    scan_no,            \* the number of this call of scan
    previous,           \* how the call before this one ended
    p_text,             \* parse_text: the lines of the text
    p_filename,         \* parse_text: the filename argument
    p_result,           \* parse_text: what it returned or raised
    parse_pc,           \* parse_text: "call" or "done"
    sc_rule_set,        \* Scanner: the rule_set it was built with
    sc_nmodules,        \* scan_project_root: the number of modules of the project
    sc_seen,            \* scan_project_root: the names of the modules done
    sc_module,          \* scan_project_root: the module of the last iteration
    sc_contrib,         \* scan_project_root: what the last iteration extended violations by
    sc_violations,      \* scan_project_root: violations
    sc_result,          \* scan_project_root: the ScanResult returned
    sc_pc               \* scan_project_root: "loop" | "returned"

(* ------------------------------------------------------------------ *)
(* Python values                                                      *)
(* ------------------------------------------------------------------ *)

S(t) == <<t>>

None == <<"<None>">>

DictGet(d, k) == IF k \in DOMAIN d THEN d[k] ELSE None

Range(seq) == {seq[i] : i \in DOMAIN seq}

\* A float, in tenths; float("nan").
Float(tenths) == <<"float", tenths>>

NaN == <<"nan">>

\* An int where None is also allowed.
IntValue(k) == <<"int", k>>

SeqUpTo(U, n) == UNION {[1..m -> U] : m \in 0..n}

(* ------------------------------------------------------------------ *)
(* ir/types.py                                                        *)
(* ------------------------------------------------------------------ *)

\* CanonicalId.__str__: f"{language}://{code_root}::{fqname}"
CanonicalIdStr(id) == <<id.language, "://">> \o id.code_root \o <<"::">> \o id.fqname

IdA == [language |-> "python", code_root |-> S("svc"), fqname |-> S("a")]

IdB == [language |-> "python", code_root |-> S("svc"), fqname |-> S("b")]

(* ------------------------------------------------------------------ *)
(* rules/baseline.py: keys                                            *)
(* ------------------------------------------------------------------ *)

\* The member names a key payload can have, in the order sort_keys=True
\* puts them.
JsonKeys == <<"dep_type", "dst_id", "message", "node_id", "rule", "src_id", "target">>

\* json.dumps(data, sort_keys=True, ...): the members of data in key order.
_stable_json(data) ==
    LET present == SelectSeq(JsonKeys, LAMBDA k : k \in DOMAIN data)
    IN  [i \in 1..Len(present) |-> <<present[i], data[present[i]]>>]

\* The values that occur in key payloads, in a fixed order: SHA-1 is taken
\* as an injective digest, and sha1 numbers the text by the values of its
\* members (0 for a member the text does not have).
ValueTable ==
    << None, S("R1"), S("R2"), S("dependency"), S("node"), S("layer"),
       S("import"), S("call"), CanonicalIdStr(IdA), CanonicalIdStr(IdB),
       S("m1"), S("m2") >>

ValueCode(x) == CHOOSE i \in 1..Len(ValueTable) : ValueTable[i] = x

Radix == Len(ValueTable) + 1

MemberDigit(text, k) ==
    IF \E i \in DOMAIN text : text[i][1] = k
    THEN ValueCode(text[CHOOSE i \in DOMAIN text : text[i][1] = k][2])
    ELSE 0

RECURSIVE Digest(_, _)
Digest(text, j) ==
    IF j = 0 THEN 0
    ELSE Digest(text, j - 1) * Radix + MemberDigit(text, JsonKeys[j])

_sha1(text) == Digest(text, Len(JsonKeys))

\* key_for with dst_id left out of the dependency payload.
key_for_without_dst(v) ==
    LET details == v.details
        target  == DictGet(details, "target")
    IN  IF target = S("dependency")
        THEN _sha1(_stable_json([rule     |-> v.rule_id,
                                 target   |-> S("dependency"),
                                 dep_type |-> DictGet(details, "dep_type"),
                                 src_id   |-> DictGet(details, "src_id")]))
        ELSE IF target = S("node")
        THEN _sha1(_stable_json([rule    |-> v.rule_id,
                                 target  |-> S("node"),
                                 node_id |-> DictGet(details, "node_id")]))
        ELSE _sha1(_stable_json([rule    |-> v.rule_id,
                                 target  |-> target,
                                 message |-> v.message]))

\* ViolationKeyStrategy.key_for
key_for(v) ==
    LET details == v.details
        target  == DictGet(details, "target")
    IN  IF target = S("dependency")
        THEN _sha1(_stable_json([rule     |-> v.rule_id,
                                 target   |-> S("dependency"),
                                 dep_type |-> DictGet(details, "dep_type"),
                                 src_id   |-> DictGet(details, "src_id"),
                                 dst_id   |-> DictGet(details, "dst_id")]))
        ELSE IF target = S("node")
        THEN _sha1(_stable_json([rule    |-> v.rule_id,
                                 target  |-> S("node"),
                                 node_id |-> DictGet(details, "node_id")]))
        ELSE _sha1(_stable_json([rule    |-> v.rule_id,
                                 target  |-> target,
                                 message |-> v.message]))

(* ------------------------------------------------------------------ *)
(* rules/baseline.py: compare                                         *)
(* ------------------------------------------------------------------ *)

\* {key_for(v): v for v in violations}: a later violation replaces an
\* earlier one with the same key.
by_key(items) ==
    [k \in {key_for(items[i]) : i \in DOMAIN items} |->
        LET last == CHOOSE i \in DOMAIN items :
                        /\ key_for(items[i]) = k
                        /\ \A j \in DOMAIN items :
                               key_for(items[j]) = k => j <= i
        IN  items[last]]

new_keys(cur_by_key, base_by_key) == DOMAIN cur_by_key \ DOMAIN base_by_key

\* existing_keys without the intersection with the baseline's keys.
existing_keys_all_current(cur_by_key, base_by_key) == DOMAIN cur_by_key

existing_keys(cur_by_key, base_by_key) == DOMAIN cur_by_key \cap DOMAIN base_by_key

fixed_keys(cur_by_key, base_by_key) == DOMAIN base_by_key \ DOMAIN cur_by_key

\* The keys from the greatest to the least.
RECURSIVE sorted_reversed(_)
sorted_reversed(keys) ==
    IF keys = {} THEN << >>
    ELSE LET greatest == CHOOSE k \in keys : \A o \in keys : o <= k
         IN  <<greatest>> \o sorted_reversed(keys \ {greatest})

\* sorted(keys)
RECURSIVE sorted(_)
sorted(keys) ==
    IF keys = {} THEN << >>
    ELSE LET least == CHOOSE k \in keys : \A o \in keys : k <= o
         IN  <<least>> \o sorted(keys \ {least})

\* BaselineComparer.compare
compare(cur, base) ==
    LET cur_by_key  == by_key(cur)
        base_by_key == by_key(base)
        nk == sorted(new_keys(cur_by_key, base_by_key))
        ek == sorted(existing_keys(cur_by_key, base_by_key))
        fk == sorted(fixed_keys(cur_by_key, base_by_key))
    IN  [new      |-> [i \in 1..Len(nk) |-> cur_by_key[nk[i]]],
         existing |-> [i \in 1..Len(ek) |-> cur_by_key[ek[i]]],
         fixed    |-> [i \in 1..Len(fk) |-> base_by_key[fk[i]]]]

(* ------------------------------------------------------------------ *)
(* Violation values (as rules/evaluator.py builds them and             *)
(* rules/baseline.py reads them)                                       *)
(* ------------------------------------------------------------------ *)

RuleIds == {S("R1"), S("R2")}

IdStrings == {CanonicalIdStr(IdA), CanonicalIdStr(IdB)}

DepTypes == {S("import"), S("call")}

Messages == {S("m1"), S("m2")}

\* The details dicts: of a FORBID violation on an edge or on a node, of a
\* REQUIRE violation, and dicts whose "target" is neither (missing, or
\* another value).
DependencyDetails ==
    {[target |-> S("dependency"), dep_type |-> t, src_id |-> s, dst_id |-> d] :
        t \in DepTypes, s \in IdStrings, d \in IdStrings}

NodeDetails == {[target |-> S("node"), node_id |-> n] : n \in IdStrings}

RequireDetails ==
    {[target |-> t, action |-> S("require")] : t \in {S("node"), S("dependency")}}

OtherDetails == {[action |-> S("require")], [target |-> S("layer")]}

AllDetails == DependencyDetails \cup NodeDetails \cup RequireDetails \cup OtherDetails

MkViolation(rule_id, rule_name, severity, message, location, details, suggestion, tags) ==
    [rule_id |-> rule_id, rule_name |-> rule_name, severity |-> severity,
     message |-> message, location |-> location, details |-> details,
     suggestion |-> suggestion, tags |-> tags]

\* ReportLocation(file, line, column, end_line, end_column)
ReportLocation(file, line, column, end_line, end_column) ==
    <<file, line, column, end_line, end_column>>

Line10 == ReportLocation(S("a.py"), S("10"), S("1"), None, None)

Line20 == ReportLocation(S("a.py"), S("20"), S("1"), None, None)

\* The first argument ranges over every rule id, details dict and message;
\* the second also over rule name and severity, location and suggestion.
ViolationsA ==
    {MkViolation(r, S("N1"), S("error"), m, None, d, None, << >>) :
        r \in RuleIds, m \in Messages, d \in AllDetails}

ViolationsB ==
    {MkViolation(r, ns[1], ns[2], m, l, d, sg, << >>) :
        r \in RuleIds, ns \in {<<S("N1"), S("error")>>, <<S("N2"), S("warning")>>},
        m \in Messages, l \in {None, Line20}, d \in AllDetails,
        sg \in {None, S("s1")}}

\* The violations compare is run on: two that share a key and differ in
\* message, and others with keys of their own.
CmpNodeViolation(r, n, m) ==
    MkViolation(r, S("N1"), S("error"), m, None, [target |-> S("node"), node_id |-> n],
                None, << >>)

CmpViolations ==
    { CmpNodeViolation(S("R1"), CanonicalIdStr(IdA), S("m1")),
      CmpNodeViolation(S("R1"), CanonicalIdStr(IdA), S("m2")),
      CmpNodeViolation(S("R1"), CanonicalIdStr(IdB), S("m1")),
      CmpNodeViolation(S("R2"), CanonicalIdStr(IdA), S("m1")),
      MkViolation(S("R1"), S("N1"), S("error"), S("m1"), Line10,
                  [target |-> S("dependency"), dep_type |-> S("import"),
                   src_id |-> CanonicalIdStr(IdA), dst_id |-> CanonicalIdStr(IdB)],
                  None, << >>),
      MkViolation(S("R2"), S("N1"), S("error"), S("m2"), None,
                  [target |-> S("layer")], None, << >>) }

MaxViolations == 2

(* ------------------------------------------------------------------ *)
(* IR elements (ir/types.py)                                           *)
(* ------------------------------------------------------------------ *)

\* SourceLoc(file, start, end), SourcePos(line, column)
SourceLoc(file, start, end) == <<file, start, end>>

SourcePos(line, column) == <<line, column>>

IRNode(id, kind, path, loc, layer) ==
    [id |-> id, kind |-> kind, path |-> path, loc |-> loc,
     name |-> None, container |-> None, layer |-> layer, context |-> None,
     tags |-> << >>, attributes |-> << >>]

IREdge(src, dst, dep_type, loc, src_layer, dst_layer) ==
    [src |-> src, dst |-> dst, dep_type |-> dep_type, loc |-> loc,
     confidence |-> Float(10), details |-> << >>,
     src_container |-> None, src_layer |-> src_layer, src_context |-> None,
     dst_container |-> None, dst_layer |-> dst_layer, dst_context |-> None]

NodeA ==
    IRNode(IdA, S("module"), S("a.py"),
           SourceLoc(S("a.py"), SourcePos(S("10"), S("1")), None), S("domain"))

NodeB == IRNode(IdB, S("interface"), None, None, S("infra"))

EdgeAB ==
    IREdge(IdA, IdB, S("import"),
           SourceLoc(S("a.py"), SourcePos(S("3"), S("1")), SourcePos(S("3"), S("9"))),
           S("domain"), S("infra"))

EdgeBA == IREdge(IdB, IdA, S("call"), None, S("infra"), S("domain"))

NodeUniverse == {NodeA, NodeB}

EdgeUniverse == {EdgeAB, EdgeBA}

\* The sequences that hold each element of a subset of U once, in any order.
Arrangements(U) ==
    {q \in SeqUpTo(U, Cardinality(U)) : \A i, j \in DOMAIN q : i # j => q[i] # q[j]}

IRs == [nodes : Arrangements(NodeUniverse), edges : Arrangements(EdgeUniverse)]

\* build_index: the index holds the IR's node and edge sequences as they are.
build_index(an_ir) == [nodes |-> an_ir.nodes, edges |-> an_ir.edges]

(* ------------------------------------------------------------------ *)
(* Compiled rules (as rules/evaluator.py reads them)                   *)
(* ------------------------------------------------------------------ *)

\* What a call of a predicate on an element does: it returns a true value,
\* returns a false value, or raises.
Outcomes == {"T", "F", "RAISE"}

Call(pred, obj) == pred[obj]

NODE == S("node")

DEPENDENCY == S("dependency")

FORBID == S("forbid")

ALLOW == S("allow")

REQUIRE == S("require")

ElementsOf(target) == IF target = DEPENDENCY THEN EdgeUniverse ELSE NodeUniverse

Predicates(target) == [ElementsOf(target) -> Outcomes]

MaxRules == 2

MaxExcept == 1

\* The rule ids, by position in the RuleSet.
RuleIdAt == <<S("R1"), S("R2"), S("R3"), S("R4")>>

MkRule(id, target, action, message, when, except_when) ==
    [id |-> id, name |-> S("N1"), severity |-> S("error"), target |-> target,
     action |-> action, message |-> message, suggestion |-> None, tags |-> << >>,
     when |-> when, except_when |-> except_when]

NoRule == [id |-> None]

\* A predicate that raises on every element.
AlwaysRaises(target) == [e \in ElementsOf(target) |-> "RAISE"]

\* Two exception predicates of which one raises on every element.
ExceptPairs(target) ==
    {<<AlwaysRaises(target), p>> : p \in Predicates(target)}
    \cup {<<p, AlwaysRaises(target)>> : p \in Predicates(target)}

\* The except_when of a rule: up to MaxExcept exception predicates, or two
\* of which one raises.
ExceptLists(target) == SeqUpTo(Predicates(target), MaxExcept) \cup ExceptPairs(target)

\* Every rule over the two targets and three actions, with or without a
\* message, any predicate and any except_when of ExceptLists; and a rule
\* whose target is neither node nor dependency.
Rules(id) ==
    {MkRule(id, t, a, m, w, x) :
        t \in {NODE}, a \in {FORBID, ALLOW, REQUIRE}, m \in {None, S("m1")},
        w \in Predicates(NODE), x \in ExceptLists(NODE)}
    \cup
    {MkRule(id, t, a, m, w, x) :
        t \in {DEPENDENCY}, a \in {FORBID, ALLOW, REQUIRE}, m \in {None, S("m1")},
        w \in Predicates(DEPENDENCY), x \in ExceptLists(DEPENDENCY)}
    \cup
    {MkRule(id, S("layer"), FORBID, None, [e \in NodeUniverse |-> "T"], << >>)}

\* The predicates of the rules of a longer RuleSet: true everywhere, false
\* everywhere, and one that raises on one element and is true on the others.
SimplePredicates(target) ==
    {[e \in ElementsOf(target) |-> "T"],
     [e \in ElementsOf(target) |-> "F"],
     [e \in ElementsOf(target) |-> IF e \in {NodeA, EdgeAB} THEN "RAISE" ELSE "T"]}

\* Rules without message and without exception predicates.
SimpleRules(id) ==
    {MkRule(id, t, a, None, w, << >>) :
        t \in {NODE}, a \in {FORBID, ALLOW, REQUIRE}, w \in SimplePredicates(NODE)}
    \cup
    {MkRule(id, t, a, None, w, << >>) :
        t \in {DEPENDENCY}, a \in {FORBID, ALLOW, REQUIRE},
        w \in SimplePredicates(DEPENDENCY)}
    \cup
    {MkRule(id, S("layer"), FORBID, None, [e \in NodeUniverse |-> "T"], << >>)}

\* The rule of a RuleSet of one rule ranges over Rules, the rules of a longer
\* RuleSet over SimpleRules.
RulesAt(position, length) ==
    IF length = 1 THEN Rules(RuleIdAt[position]) ELSE SimpleRules(RuleIdAt[position])

(* ------------------------------------------------------------------ *)
(* rules/evaluator.py                                                  *)
(* ------------------------------------------------------------------ *)

\* A call's end: a value returned, or an exception that escaped.
Ok(value) == [raised |-> FALSE, value |-> value]

Raised == [raised |-> TRUE, value |-> << >>]

LocEnd(loc, part) == IF loc[3] # None THEN loc[3][part] ELSE None

_node_location(n) ==
    IF n.loc = None THEN None
    ELSE ReportLocation(n.loc[1], n.loc[2][1], n.loc[2][2],
                        LocEnd(n.loc, 1), LocEnd(n.loc, 2))

_edge_location(e) ==
    IF e.loc = None THEN None
    ELSE ReportLocation(e.loc[1], e.loc[2][1], e.loc[2][2],
                        LocEnd(e.loc, 1), LocEnd(e.loc, 2))

_as_index(an_ir) == build_index(an_ir)

\* for ex in except_when, from the i-th on
RECURSIVE passes_from(_, _, _)
passes_from(obj, except_when, i) ==
    IF i > Len(except_when) THEN TRUE
    ELSE LET r == Call(except_when[i], obj)
         IN  IF r = "T" THEN FALSE                               \* return False
             ELSE IF r = "RAISE" THEN passes_from(obj, except_when, i + 1)  \* continue
             ELSE passes_from(obj, except_when, i + 1)

\* _passes_exceptions that gives up at the first exception predicate that
\* raises: the predicates after it are not called.
_passes_exceptions_stops_at_raise(obj, except_when) ==
    \A j \in DOMAIN except_when :
        Call(except_when[j], obj) = "T" =>
            \E i \in 1..(j - 1) : Call(except_when[i], obj) = "RAISE"

\* _passes_exceptions that excludes nothing.
_passes_exceptions_always(obj, except_when) == TRUE

_passes_exceptions(obj, except_when) == passes_from(obj, except_when, 1)

\* The try block of the matching loop: "match" (append), "skip", or "raise".
TryMatch(rule, obj) ==
    LET w == Call(rule.when, obj)
    IN  IF w = "RAISE" THEN "raise"
        ELSE IF w = "T" /\ _passes_exceptions(obj, rule.except_when) THEN "match"
        ELSE "skip"

\* The loop body without its except clause.
LoopBody_without_except(rule, obj) == TryMatch(rule, obj)

\* The loop body: try ... except Exception: continue
LoopBody(rule, obj) ==
    IF TryMatch(rule, obj) = "raise" THEN "skip" ELSE TryMatch(rule, obj)

\* for obj in elems: ... matches.append(obj), from the i-th element on
RECURSIVE MatchesFrom(_, _, _)
MatchesFrom(elems, rule, i) ==
    IF i > Len(elems) THEN Ok(<< >>)
    ELSE LET b == LoopBody(rule, elems[i])
         IN  IF b = "raise" THEN Raised
             ELSE LET rest == MatchesFrom(elems, rule, i + 1)
                  IN  IF rest.raised THEN Raised
                      ELSE Ok((IF b = "match" THEN <<elems[i]>> ELSE << >>) \o rest.value)

\* _require_missing_violation without the default message.
_require_missing_violation_no_default(rule, target) ==
    MkViolation(rule.id, rule.name, rule.severity, rule.message, None,
                [target |-> target, action |-> S("require")],
                rule.suggestion, rule.tags)

_require_missing_violation(rule, target) ==
    LET msg == IF rule.message # None /\ rule.message # << >>
               THEN rule.message
               ELSE <<"Required ">> \o target \o <<" pattern not found.">>
    IN  MkViolation(rule.id, rule.name, rule.severity, msg, None,
                    [target |-> target, action |-> S("require")],
                    rule.suggestion, rule.tags)

NodeViolation(rule, n) ==
    MkViolation(rule.id, rule.name, rule.severity, rule.message, _node_location(n),
                [target |-> S("node"), node_id |-> CanonicalIdStr(n.id),
                 fqname |-> n.id.fqname, kind |-> n.kind, path |-> n.path,
                 container |-> n.container, layer |-> n.layer, context |-> n.context],
                rule.suggestion, rule.tags)

\* EdgeViolation with src and dst exchanged.
EdgeViolation_swapped(rule, e) ==
    MkViolation(rule.id, rule.name, rule.severity, rule.message, _edge_location(e),
                [target |-> S("dependency"), dep_type |-> e.dep_type,
                 src_id |-> CanonicalIdStr(e.dst), dst_id |-> CanonicalIdStr(e.src),
                 src_fqname |-> e.src.fqname, dst_fqname |-> e.dst.fqname,
                 src_container |-> e.src_container, src_layer |-> e.src_layer,
                 src_context |-> e.src_context, dst_container |-> e.dst_container,
                 dst_layer |-> e.dst_layer, dst_context |-> e.dst_context],
                rule.suggestion, rule.tags)

EdgeViolation(rule, e) ==
    MkViolation(rule.id, rule.name, rule.severity, rule.message, _edge_location(e),
                [target |-> S("dependency"), dep_type |-> e.dep_type,
                 src_id |-> CanonicalIdStr(e.src), dst_id |-> CanonicalIdStr(e.dst),
                 src_fqname |-> e.src.fqname, dst_fqname |-> e.dst.fqname,
                 src_container |-> e.src_container, src_layer |-> e.src_layer,
                 src_context |-> e.src_context, dst_container |-> e.dst_container,
                 dst_layer |-> e.dst_layer, dst_context |-> e.dst_context],
                rule.suggestion, rule.tags)

\* _eval_node_rule with the ALLOW branch left out.
_eval_node_rule_without_allow(index, rule) ==
    LET matches == MatchesFrom(index.nodes, rule, 1)
    IN  IF matches.raised THEN Raised
        ELSE IF rule.action = REQUIRE
        THEN Ok(IF matches.value = << >>
                THEN <<_require_missing_violation(rule, S("node"))>>
                ELSE << >>)
        ELSE Ok([i \in 1..Len(matches.value) |-> NodeViolation(rule, matches.value[i])])

_eval_node_rule(index, rule) ==
    LET matches == MatchesFrom(index.nodes, rule, 1)
    IN  IF matches.raised THEN Raised
        ELSE IF rule.action = REQUIRE
        THEN Ok(IF matches.value = << >>
                THEN <<_require_missing_violation(rule, S("node"))>>
                ELSE << >>)
        ELSE IF rule.action = ALLOW
        THEN Ok(<< >>)
        ELSE Ok([i \in 1..Len(matches.value) |-> NodeViolation(rule, matches.value[i])])

_eval_edge_rule(index, rule) ==
    LET matches == MatchesFrom(index.edges, rule, 1)
    IN  IF matches.raised THEN Raised
        ELSE IF rule.action = REQUIRE
        THEN Ok(IF matches.value = << >>
                THEN <<_require_missing_violation(rule, S("dependency"))>>
                ELSE << >>)
        ELSE IF rule.action = ALLOW
        THEN Ok(<< >>)
        ELSE Ok([i \in 1..Len(matches.value) |-> EdgeViolation(rule, matches.value[i])])

\* One iteration of evaluate's loop over rules.rules: what out is extended by.
EvalOneRule(index, rule) ==
    IF rule.target = NODE THEN _eval_node_rule(index, rule)
    ELSE IF rule.target = DEPENDENCY THEN _eval_edge_rule(index, rule)
    ELSE Ok(<< >>)                                             \* continue

(* ------------------------------------------------------------------ *)
(* ir/validate.py                                                      *)
(* ------------------------------------------------------------------ *)

CanonicalIdToDict(id) ==
    [language |-> S(id.language), code_root |-> id.code_root, fqname |-> id.fqname]

SourceLocToDict(loc) ==
    [file |-> loc[1],
     start |-> [line |-> loc[2][1], column |-> loc[2][2]],
     end |-> IF loc[3] = None THEN None
             ELSE [line |-> loc[3][1], column |-> loc[3][2]]]

IRNodeToDict(n) ==
    [id |-> CanonicalIdToDict(n.id), kind |-> n.kind, name |-> n.name,
     path |-> n.path,
     loc |-> IF n.loc = None THEN None ELSE SourceLocToDict(n.loc),
     container |-> n.container, layer |-> n.layer, context |-> n.context,
     tags |-> n.tags, attributes |-> n.attributes]

IREdgeToDict(e) ==
    [src |-> CanonicalIdToDict(e.src), dst |-> CanonicalIdToDict(e.dst),
     dep_type |-> e.dep_type,
     loc |-> IF e.loc = None THEN None ELSE SourceLocToDict(e.loc),
     confidence |-> e.confidence, details |-> e.details,
     src_container |-> e.src_container, src_layer |-> e.src_layer,
     src_context |-> e.src_context, dst_container |-> e.dst_container,
     dst_layer |-> e.dst_layer, dst_context |-> e.dst_context]

ArchitectureIR(schema_version, nodes, edges) ==
    [schema_version |-> schema_version, produced_by |-> S("archguard-python@0.1.0"),
     repo_root |-> S("/repo"), nodes |-> nodes, edges |-> edges,
     metadata |-> << >>]

IRValidationOptions(strict, nodes_limit, edges_limit) ==
    <<strict, nodes_limit, edges_limit>>

\* strict_references read as always set.
strict_references_always(opts) == TRUE

strict_references(opts) == opts[1]

max_nodes(opts) == opts[2]

max_edges(opts) == opts[3]

\* IRValidationOptions(): the defaults
DefaultOptions == IRValidationOptions(FALSE, None, None)

EngineError(type, message, location, details) ==
    [type |-> type, message |-> message, location |-> location, details |-> details]

_edge_loc(e) ==
    IF e.loc = None THEN None
    ELSE ReportLocation(e.loc[1], e.loc[2][1], e.loc[2][2],
                        LocEnd(e.loc, 1), LocEnd(e.loc, 2))

\* not text.strip(): nothing but whitespace in text
StripIsEmpty(text) == \A i \in DOMAIN text : text[i] \in {"", " "}

\* A range check that has no upper end.
ConfidenceInRange_no_upper(c) == Len(c) = 2 /\ 0 <= c[2]

\* 0.0 <= float(e.confidence) <= 1.0 (every comparison with nan is false)
ConfidenceInRange(c) == Len(c) = 2 /\ 0 <= c[2] /\ c[2] <= 10

SchemaErrors(an_ir) ==
    IF an_ir.schema_version <= 0
    THEN <<EngineError(S("runtime_error"),
                       <<"Invalid IR schema_version: ", an_ir.schema_version>>,
                       None, [schema_version |-> an_ir.schema_version])>>
    ELSE << >>

MaxNodesErrors(an_ir, opts) ==
    IF max_nodes(opts) # None /\ Len(an_ir.nodes) > max_nodes(opts)[2]
    THEN <<EngineError(S("runtime_error"), S("IR contains too many nodes"), None,
                       [nodes |-> Len(an_ir.nodes), max_nodes |-> max_nodes(opts)[2]])>>
    ELSE << >>

MaxEdgesErrors(an_ir, opts) ==
    IF max_edges(opts) # None /\ Len(an_ir.edges) > max_edges(opts)[2]
    THEN <<EngineError(S("runtime_error"), S("IR contains too many edges"), None,
                       [edges |-> Len(an_ir.edges), max_edges |-> max_edges(opts)[2]])>>
    ELSE << >>

\* for n in ir.nodes, from the i-th on: the errors appended and seen_nodes
RECURSIVE NodeLoop(_, _, _, _)
NodeLoop(nodes, i, seen_nodes, errors) ==
    IF i > Len(nodes) THEN [seen_nodes |-> seen_nodes, errors |-> errors]
    ELSE LET n == nodes[i]
             nid == CanonicalIdStr(n.id)
         IN  IF StripIsEmpty(nid)
             THEN NodeLoop(nodes, i + 1, seen_nodes,
                      Append(errors,
                          EngineError(S("runtime_error"),
                                      S("IR node has empty canonical id"), None,
                                      [node |-> IRNodeToDict(n)])))
             ELSE IF nid \in seen_nodes
             THEN NodeLoop(nodes, i + 1, seen_nodes,
                      Append(errors,
                          EngineError(S("runtime_error"),
                                      S("Duplicate IR node id detected"), None,
                                      [node_id |-> nid])))
             ELSE NodeLoop(nodes, i + 1, seen_nodes \cup {nid}, errors)

\* The errors one iteration of "for e in ir.edges" appends.
EdgeErrors(e, node_ids, opts) ==
    LET src_ok == CanonicalIdStr(e.src) \in node_ids
        dst_ok == CanonicalIdStr(e.dst) \in node_ids
    IN  (IF ~ConfidenceInRange(e.confidence)
         THEN <<EngineError(S("runtime_error"),
                            S("Edge confidence must be within [0,1]"), _edge_loc(e),
                            [confidence |-> e.confidence,
                             src |-> CanonicalIdStr(e.src),
                             dst |-> CanonicalIdStr(e.dst),
                             dep_type |-> e.dep_type])>>
         ELSE << >>)
        \o
        (IF StripIsEmpty(CanonicalIdStr(e.src)) \/ StripIsEmpty(CanonicalIdStr(e.dst))
         THEN <<EngineError(S("runtime_error"),
                            S("Edge has empty src or dst canonical id"), _edge_loc(e),
                            [edge |-> IREdgeToDict(e)])>>
         ELSE << >>)
        \o
        (IF strict_references(opts) /\ (~src_ok \/ ~dst_ok)
         THEN <<EngineError(S("runtime_error"),
                            S("Edge references missing node(s) (strict mode)"),
                            _edge_loc(e),
                            [missing_src |-> ~src_ok, missing_dst |-> ~dst_ok,
                             src |-> CanonicalIdStr(e.src),
                             dst |-> CanonicalIdStr(e.dst),
                             dep_type |-> e.dep_type])>>
         ELSE << >>)

\* for e in ir.edges, from the i-th on
RECURSIVE EdgeLoop(_, _, _, _, _)
EdgeLoop(edges, i, node_ids, opts, errors) ==
    IF i > Len(edges) THEN errors
    ELSE EdgeLoop(edges, i + 1, node_ids, opts,
                  errors \o EdgeErrors(edges[i], node_ids, opts))

validate_ir(an_ir, given_opts) ==
    LET opts == IF given_opts = None THEN DefaultOptions ELSE given_opts
        head == SchemaErrors(an_ir) \o MaxNodesErrors(an_ir, opts)
                    \o MaxEdgesErrors(an_ir, opts)
        after_nodes == NodeLoop(an_ir.nodes, 1, {}, head)
    IN  EdgeLoop(an_ir.edges, 1, after_nodes.seen_nodes, opts, after_nodes.errors)

\* The inputs validate_ir is applied to.
MaxValNodes == 2

MaxValEdges == 2

Confidences == {Float(0 - 5), Float(0), Float(5), Float(10), Float(17), NaN}

\* A CanonicalId whose code_root and fqname are empty strings.
IdEmpty == [language |-> "unknown", code_root |-> << >>, fqname |-> << >>]

NodeEmpty == IRNode(IdEmpty, S("module"), None, None, None)

EdgeAEmpty == IREdge(IdA, IdEmpty, S("import"), None, None, None)

ValNodes == NodeUniverse \cup {NodeEmpty}

ValEdges ==
    {[EdgeAB EXCEPT !.confidence = c] : c \in Confidences} \cup {EdgeBA, EdgeAEmpty}

SchemaVersions == {0 - 1, 0, 1}

SizeLimits == {None, IntValue(1)}

ValIRs ==
    {ArchitectureIR(sv, ns, es) :
        sv \in SchemaVersions,
        ns \in SeqUpTo(ValNodes, MaxValNodes),
        es \in SeqUpTo(ValEdges, MaxValEdges)}

ValOptions ==
    {None} \cup {IRValidationOptions(sr, mn, me) :
                    sr \in BOOLEAN, mn \in SizeLimits, me \in SizeLimits}

(* ------------------------------------------------------------------ *)
(* core/engine.py                                                      *)
(* ------------------------------------------------------------------ *)

MaxAnalyzers == 2

MaxScanRules == 2

\* A rule of a compiled RuleSet, by what evaluating it gives: one violation
\* or none.
ScanRuleKinds == {"hit", "quiet"}

\* RuleSet.empty() with a rule left in it.
RuleSetEmpty_one_rule == <<"hit">>

\* RuleSet.empty()
RuleSetEmpty == << >>

\* The violations of the first n rules of rules: the position of every rule
\* that gives one.
RECURSIVE ViolationsOfPrefix(_, _)
ViolationsOfPrefix(rules, n) ==
    IF n = 0 THEN << >>
    ELSE ViolationsOfPrefix(rules, n - 1)
             \o (IF rules[n] = "hit" THEN <<n>> ELSE << >>)

\* evaluate(enriched_ir, ruleset) when it returns
EvaluateAll(rules) == ViolationsOfPrefix(rules, Len(rules))

\* The except branch with the violations found so far kept.
AfterEvaluateFailed_keeps_partial(partial) == partial

\* except Exception: ... violations = []
AfterEvaluateFailed(partial) == << >>

NoAnalyzersError ==
    EngineError(S("config_error"), S("No analyzers found for this repository"), None,
                [hint |-> S("Install an analyzer plugin")])

AnalyzerFailedError ==
    EngineError(S("runtime_error"), <<"Analyzer '", "plugin_id", "' failed">>, None,
                [error |-> S("repr(e)"), analyzer |-> S("plugin_id")])

ModelValidatorError ==
    EngineError(S("config_error"), S("model validation"), None, << >>)

ModelFailedError ==
    EngineError(S("config_error"), S("Failed to load architecture model"),
                [file |-> S("architecture.yaml"), start |-> [line |-> 1, column |-> 1]],
                [error |-> S("repr(e)")])

EnrichFailedError ==
    EngineError(S("runtime_error"),
                S("Failed to enrich IR with architecture model mapping"), None,
                [error |-> S("repr(e)")])

RulesFailedError ==
    EngineError(S("rules_error"), S("Failed to load/parse/compile rules"), None,
                [error |-> S("repr(e)")])

EvaluationFailedError ==
    EngineError(S("runtime_error"), S("Rule evaluation failed"), None,
                [error |-> S("repr(e)")])

BaselineNotFoundError ==
    EngineError(S("config_error"), <<"Baseline snapshot not found: ", "baseline">>, None,
                [hint |-> S("Create a baseline")])

\* except branch of the baseline lookup with no error recorded.
AfterBaselineMissing_silent(errors) == errors

\* else: engine_errors.append(EngineError(type="config_error", ...))
AfterBaselineMissing(errors) == Append(errors, BaselineNotFoundError)

MaxScans == 2

\* cfg.baseline: no ref, or a ref.
BaselineRefs == { None, S("latest"), S("main") }

\* A snapshot is known by the call of scan that built it; 0 is a snapshot
\* stored before the first call.
StoresBefore ==
    { [r \in refs |-> 0] : refs \in SUBSET (BaselineRefs \ {None}) }

\* save under a ref nobody reads.
SavedRef_other == S("other")

\* ref="latest"
SavedRef == S("latest")

\* self.snapshot_store.exists(ref)
StoreExists(st, ref) == ref \in DOMAIN st

\* self.snapshot_store.load(ref)
StoreLoad(st, ref) == IntValue(st[ref])

\* self.snapshot_store.save(snapshot, ref=ref)
StoreSave(st, snapshot, ref) ==
    [r \in DOMAIN st \cup {ref} |-> IF r = ref THEN snapshot ELSE st[r]]

NoReport == [built |-> FALSE, violations |-> << >>, engine_errors |-> << >>, diff |-> FALSE]

(* ------------------------------------------------------------------ *)
(* rules/parser.py                                                     *)
(*                                                                     *)
(* A line is its indentation and its text without the surrounding      *)
(* whitespace; a text is a sequence of tokens: words, ":" (written     *)
(* next to the word before it) and the list marker "- ".               *)
(* ------------------------------------------------------------------ *)

Line(indent, text) == [indent |-> indent, text |-> text]

\* len(line) - len(line.lstrip(" "))
_indent_of(line) == line.indent

\* ln.strip()
Stripped(line) == line.text

\* The values of the parsed structure: str, dict (its items in insertion
\* order), list; and None.
PStr(text) == <<"str", text>>

PDict(pairs) == <<"dict", pairs>>

PList(elems) == <<"list", elems>>

PNone == <<"none", << >>>>

IsStr(v) == v[1] = "str"

IsDict(v) == v[1] = "dict"

IsList(v) == v[1] = "list"

\* key in d
DictHas(pairs, key) == \E i \in DOMAIN pairs : pairs[i][1] = key

\* d.get(key)
DictGetOr(pairs, key, default) ==
    IF DictHas(pairs, key)
    THEN pairs[CHOOSE i \in DOMAIN pairs : pairs[i][1] = key][2]
    ELSE default

\* d[key] = value
DictSet(pairs, key, value) ==
    IF DictHas(pairs, key)
    THEN [i \in DOMAIN pairs |-> IF pairs[i][1] = key THEN <<key, value>> ELSE pairs[i]]
    ELSE Append(pairs, <<key, value>>)

\* ":" in stripped
HasColon(text) == \E i \in DOMAIN text : text[i] = ":"

FirstColon(text) == CHOOSE i \in DOMAIN text : text[i] = ":" /\ \A j \in 1..(i - 1) : text[j] # ":"

\* key, rest = stripped.split(":", 1); key.strip(); rest.strip()
KeyOf(text) == SubSeq(text, 1, FirstColon(text) - 1)

RestOf(text) == SubSeq(text, FirstColon(text) + 1, Len(text))

\* stripped.startswith("- ")
StartsWithDash(text) == text # << >> /\ text[1] = "- "

\* stripped[2:].strip()
Payload(text) == Tail(text)

\* The result of a call is bound once and then used: Only({ F(r) : r \in {call} }).
Only(set) == CHOOSE x \in set : TRUE

\* A call of a parsing function: it returns value (and the number of lines
\* it consumed), or raises RulesParseError(message, file).
Parsed(value, consumed) == [raised |-> FALSE, value |-> value, consumed |-> consumed]

RulesParseError(message, file) ==
    [raised |-> TRUE, error |-> [type |-> "RulesParseError", message |-> message, file |-> file]]

RECURSIVE MappingLoop(_, _, _, _, _)
RECURSIVE ListLoop(_, _, _, _, _)

\* The while loop of _parse_mapping and of _parse_mapping_with_consumed, from
\* i on with mapping as it is.
MappingLoop(lines, filename, base_indent, i, mapping) ==
    IF i >= Len(lines) THEN Parsed(mapping, i)
    ELSE
    LET ln == lines[i + 1]
        indent == _indent_of(ln)
        stripped == Stripped(ln)
    IN  IF indent < base_indent THEN Parsed(mapping, i)                        \* break
        ELSE IF indent > base_indent
        THEN RulesParseError(S("Unexpected indentation"), filename)
        ELSE IF ~HasColon(stripped)
        THEN RulesParseError(<<"Expected key:value, got '">> \o stripped \o <<"'">>, filename)
        ELSE
        LET key == KeyOf(stripped)
            rest == RestOf(stripped)
        IN  IF rest # << >>
            THEN MappingLoop(lines, filename, base_indent, i + 1,
                             DictSet(mapping, key, PStr(rest)))
            ELSE IF i + 1 >= Len(lines)
            THEN Parsed(DictSet(mapping, key, PDict(<< >>)), i + 1)            \* break
            ELSE
            LET next_ln == lines[i + 2]
                next_indent == _indent_of(next_ln)
                rest_lines == SubSeq(lines, i + 2, Len(lines))
            IN  IF next_indent <= base_indent
                THEN MappingLoop(lines, filename, base_indent, i + 1,
                                 DictSet(mapping, key, PDict(<< >>)))
                ELSE IF StartsWithDash(Stripped(next_ln))
                THEN Only({ IF got.raised THEN got
                            ELSE MappingLoop(lines, filename, base_indent,
                                             i + 1 + got.consumed,
                                             DictSet(mapping, key, PList(got.value))) :
                            got \in { ListLoop(rest_lines, filename, next_indent, 0, << >>) } })
                ELSE Only({ IF got.raised THEN got
                            ELSE MappingLoop(lines, filename, base_indent,
                                             i + 1 + got.consumed,
                                             DictSet(mapping, key, PDict(got.value))) :
                            got \in { MappingLoop(rest_lines, filename, next_indent, 0, << >>) } })

\* The while loop of _parse_list, from i on with items as it is.
ListLoop(lines, filename, base_indent, i, items) ==
    IF i >= Len(lines) THEN Parsed(items, i)
    ELSE
    LET ln == lines[i + 1]
        indent == _indent_of(ln)
        stripped == Stripped(ln)
    IN  IF indent < base_indent THEN Parsed(items, i)                      \* break
        ELSE IF indent # base_indent
        THEN RulesParseError(S("Unexpected indentation in list"), filename)
        ELSE IF ~StartsWithDash(stripped) THEN Parsed(items, i)            \* break
        ELSE IF Payload(stripped) # << >>
        THEN ListLoop(lines, filename, base_indent, i + 1,
                      Append(items, PStr(Payload(stripped))))              \* scalar item
        ELSE IF i + 1 >= Len(lines)
        THEN Parsed(Append(items, PDict(<< >>)), i + 1)
        ELSE
        LET next_ln == lines[i + 2]
            next_indent == _indent_of(next_ln)
        IN  IF next_indent <= base_indent
            THEN ListLoop(lines, filename, base_indent, i + 1,
                          Append(items, PDict(<< >>)))
            ELSE Only({ IF got.raised THEN got
                        ELSE ListLoop(lines, filename, base_indent, i + 1 + got.consumed,
                                      Append(items, PDict(got.value))) :
                        got \in { MappingLoop(SubSeq(lines, i + 2, Len(lines)), filename,
                                               next_indent, 0, << >>) } })

_parse_mapping_with_consumed(lines, filename, base_indent) ==
    MappingLoop(lines, filename, base_indent, 0, << >>)

_parse_list(lines, filename, base_indent) ==
    ListLoop(lines, filename, base_indent, 0, << >>)

\* _parse_mapping: the same loop; only the dict is returned.
_parse_mapping(lines, filename, base_indent) ==
    Only({ IF got.raised THEN got ELSE Ok(got.value) :
           got \in { MappingLoop(lines, filename, base_indent, 0, << >>) } })

\* str(value) and repr(value): a str is its own text, any other value is
\* written out by Python (the text is named by the value's type).
PyStr(v) == IF IsStr(v) THEN v[2] ELSE <<"str of a ", v[1]>>

Repr(v) == IF IsStr(v) THEN <<"'">> \o v[2] \o <<"'">> ELSE <<"repr of a ", v[1]>>

\* for x in value: the elements of a list, the keys of a dict, the
\* characters of a str (one-character strings; "<char>" stands for each).
Iterate(v) ==
    IF IsList(v) THEN v[2]
    ELSE IF IsDict(v) THEN [i \in DOMAIN v[2] |-> PStr(v[2][i][1])]
    ELSE IF IsStr(v) THEN [i \in DOMAIN v[2] |-> PStr(<<"<char>">>)]
    ELSE << >>

\* Tokens written without whitespace before them, and after them.
GluedToPrevious == {":", ",", "]"}

GluedToNext == {"["}

RECURSIVE WhitespaceParts(_)
\* text.strip().split(): the maximal runs of tokens with no whitespace
\* between them.
WhitespaceParts(text) ==
    IF text = << >> THEN << >>
    ELSE
    LET front == WhitespaceParts(SubSeq(text, 1, Len(text) - 1))
        last == text[Len(text)]
        glued == /\ Len(text) > 1
                 /\ \/ last \in GluedToPrevious
                    \/ text[Len(text) - 1] \in GluedToNext
    IN  IF glued
        THEN [front EXCEPT ![Len(front)] = Append(@, last)]
        ELSE Append(front, <<last>>)

RECURSIVE Join(_)
\* " ".join(parts)
Join(parts) == IF parts = << >> THEN << >> ELSE Head(parts) \o Join(Tail(parts))

RECURSIVE SplitComma(_)
\* [p.strip() for p in inner.split(",")]
SplitComma(text) ==
    IF \E i \in DOMAIN text : text[i] = ","
    THEN LET c == CHOOSE i \in DOMAIN text : text[i] = "," /\ \A j \in 1..(i - 1) : text[j] # ","
         IN  <<SubSeq(text, 1, c - 1)>> \o SplitComma(SubSeq(text, c + 1, Len(text)))
    ELSE <<text>>

\* rules/ast.py, as the parser constructs them
LiteralAst(kind, value) == [ast |-> "LiteralAst", kind |-> kind, value |-> value]

FieldAst(path) == [ast |-> "FieldAst", path |-> path]

CompareAst(left, op, right) == [ast |-> "CompareAst", left |-> left, op |-> op, right |-> right]

AndAst(elems) == [ast |-> "AndAst", items |-> elems]

OrAst(elems) == [ast |-> "OrAst", items |-> elems]

NotAst(item) == [ast |-> "NotAst", item |-> item]

DependencyWhenAst(predicate) == [ast |-> "DependencyWhenAst", predicate |-> predicate]

NodeWhenAst(predicate) == [ast |-> "NodeWhenAst", predicate |-> predicate]

\* A bool and a number (an int or a float), as Python values.
PBool(b) == <<"bool", b>>

PNumber(n) == <<"number", n>>

\* _parse_literal: the values the mapping parser produces are None, str,
\* list and dict, never bool, int or float.
_parse_literal(value) ==
    IF value = PNone THEN LiteralAst("null", PNone)
    ELSE IF value[1] = "bool" THEN LiteralAst("bool", value)
    ELSE IF value[1] = "number" THEN LiteralAst("number", value)
    ELSE IF IsList(value) THEN LiteralAst("list", value)
    ELSE
    LET s == PyStr(value)
    IN  IF s # << >> /\ s[1] = "[" /\ s[Len(s)] = "]"
        THEN LET inner == SubSeq(s, 2, Len(s) - 1)
             IN  IF inner = << >> THEN LiteralAst("list", PList(<< >>))
                 ELSE LiteralAst("list",
                                 PList([i \in DOMAIN SplitComma(inner) |->
                                            PStr(SplitComma(inner)[i])]))
        ELSE LiteralAst("string", PStr(s))

_parse_inline_compare(text, filename) ==
    LET parts == WhitespaceParts(text)
    IN  IF Len(parts) < 3
        THEN RulesParseError(<<"Invalid inline predicate: ">> \o Repr(PStr(text)), filename)
        ELSE Parsed(CompareAst(FieldAst(parts[1]), parts[2],
                               _parse_literal(PStr(Join(SubSeq(parts, 3, Len(parts)))))), 0)

_parse_pred_item(item, filename) ==
    IF IsDict(item)
    THEN LET field == DictGetOr(item[2], S("field"), PNone)
             op == DictGetOr(item[2], S("op"), PStr(S("==")))
             value == DictGetOr(item[2], S("value"), PNone)
         IN  IF ~IsStr(field) \/ field[2] = << >>
             THEN RulesParseError(S("Predicate item missing non-empty 'field'"), filename)
             ELSE IF ~IsStr(op) \/ op[2] = << >>
             THEN RulesParseError(S("Predicate item missing non-empty 'op'"), filename)
             ELSE Ok(CompareAst(FieldAst(field[2]), op[2], _parse_literal(value)))
    ELSE IF IsStr(item)
    THEN _parse_inline_compare(item[2], filename)
    ELSE RulesParseError(<<"Unsupported predicate item: ">> \o Repr(item), filename)

\* tuple(self._parse_pred_item(x) for x in value): the items in order, or
\* the error of the first item that raises.
FirstRaised(got) ==
    got[CHOOSE i \in DOMAIN got : got[i].raised /\ \A j \in 1..(i - 1) : ~got[j].raised]

PredItems(value, filename) ==
    Only({ IF \E i \in DOMAIN got : got[i].raised
           THEN FirstRaised(got)
           ELSE Ok([i \in DOMAIN got |-> got[i].value]) :
           got \in { [i \in DOMAIN Iterate(value) |->
                          _parse_pred_item(Iterate(value)[i], filename)] } })

_parse_when_predicate(when_obj, filename) ==
    IF ~IsDict(when_obj)
    THEN RulesParseError(S("'when' must be a mapping"), filename)
    ELSE IF DictHas(when_obj[2], S("all"))
    THEN Only({ IF got.raised THEN got ELSE Ok(AndAst(got.value)) :
                got \in { PredItems(DictGetOr(when_obj[2], S("all"), PNone), filename) } })
    ELSE IF DictHas(when_obj[2], S("any"))
    THEN Only({ IF got.raised THEN got ELSE Ok(OrAst(got.value)) :
                got \in { PredItems(DictGetOr(when_obj[2], S("any"), PNone), filename) } })
    ELSE IF DictHas(when_obj[2], S("not"))
    THEN Only({ IF got.raised THEN got ELSE Ok(NotAst(got.value)) :
                got \in { _parse_pred_item(DictGetOr(when_obj[2], S("not"), PNone),
                                           filename) } })
    ELSE RulesParseError(S("when: must contain one of: all, any, not"), filename)

\* _req_str
_req_str(root, key, filename) ==
    IF ~DictHas(root, key)
    THEN RulesParseError(<<"Missing required key: ">> \o key, filename)
    ELSE LET val == DictGetOr(root, key, PNone)
         IN  IF ~IsStr(val) \/ val[2] = << >>
             THEN RulesParseError(<<"Key '">> \o key \o <<"' must be a non-empty string">>,
                                  filename)
             ELSE Ok(val[2])

\* _opt_str
_opt_str(root, key, default) ==
    IF ~DictHas(root, key) THEN default
    ELSE LET val == DictGetOr(root, key, PNone)
         IN  IF val = PNone THEN None ELSE PyStr(val)

SourceSpan(file) == [file |-> file]

RuleAst(id, name, description, severity, action, when, message, suggestion, span) ==
    [id |-> id, name |-> name, description |-> description, severity |-> severity,
     action |-> action, when |-> when, except_when |-> << >>, message |-> message,
     suggestion |-> suggestion, tags |-> << >>, span |-> span,
     metadata |-> <<<<"parser", "dsl-v0">>>>]

RulesDocumentAst(rules, span) == [rules |-> rules, span |-> span]

RuleLine == <<"rule", ":">>

\* ln.strip().startswith("#")
IsComment(text) == text # << >> /\ text[1] = "#"

\* _parse_rule_block from the required fields on, root being the mapping
\* _parse_mapping returned.
RuleOfRoot(root, filename) ==
    LET rid == _req_str(root, S("id"), filename)
        name == _req_str(root, S("name"), filename)
        severity == _opt_str(root, S("severity"), S("error"))
        action == _opt_str(root, S("action"), S("forbid"))
        target == _opt_str(root, S("target"), S("dependency"))
        message == _opt_str(root, S("message"), None)
        suggestion == _opt_str(root, S("suggestion"), None)
        description == _opt_str(root, S("description"), None)
        when_obj == DictGetOr(root, S("when"), PNone)
    IN  IF rid.raised THEN rid
        ELSE IF name.raised THEN name
        ELSE IF when_obj = PNone
        THEN RulesParseError(<<"Rule '">> \o rid.value \o <<"' missing 'when:' block">>,
                             filename)
        ELSE Only({ IF predicate.raised THEN predicate
                    ELSE Ok(RuleAst(rid.value, name.value, description, severity, action,
                                    IF target = S("dependency")
                                    THEN DependencyWhenAst(predicate.value)
                                    ELSE NodeWhenAst(predicate.value),
                                    message, suggestion, SourceSpan(filename))) :
                    predicate \in { _parse_when_predicate(when_obj, filename) } })

\* _parse_rule_block: a block is the lines "\n".join put together and
\* splitlines takes apart again.
_parse_rule_block(block, filename) ==
    LET lines == SelectSeq(block, LAMBDA ln : Stripped(ln) # << >> /\ ~IsComment(Stripped(ln)))
    IN  IF lines = << >> \/ Stripped(lines[1]) # RuleLine
        THEN RulesParseError(S("Rule block must start with 'rule:'"), filename)
        ELSE Only({ IF root.raised THEN root ELSE RuleOfRoot(root.value, filename) :
                    root \in { _parse_mapping(Tail(lines), filename,
                                              IF Len(lines) > 1 THEN _indent_of(lines[2])
                                              ELSE 0) } })

RECURSIVE SplitLoop(_, _, _)
\* The for loop of _split_rule_blocks with flush, and the flush after it.
SplitLoop(lines, cur, blocks) ==
    LET flushed == IF \E k \in DOMAIN cur : Stripped(cur[k]) # << >>
                   THEN Append(blocks, cur)
                   ELSE blocks
    IN  IF lines = << >> THEN flushed
        ELSE IF Stripped(Head(lines)) = << >>
        THEN SplitLoop(Tail(lines), << >>, flushed)
        ELSE SplitLoop(Tail(lines), Append(cur, Head(lines)), blocks)

\* _split_rule_blocks keeping every block.
_split_rule_blocks_unfiltered(text) == SplitLoop(text, << >>, << >>)

\* _split_rule_blocks: text.splitlines() is the sequence of lines.
_split_rule_blocks(text) ==
    SelectSeq(SplitLoop(text, << >>, << >>),
              LAMBDA b : LET nonblank == SelectSeq(b, LAMBDA ln : Stripped(ln) # << >>)
                         IN  nonblank # << >> /\ Stripped(nonblank[1]) = RuleLine)

\* filename or "<rules>"
FilenameOr(filename) == IF filename = None \/ filename = << >> THEN S("<rules>") ELSE filename

\* What _parse_rule_block gives on each block.
BlockResults(blocks, filename) ==
    [k \in DOMAIN blocks |-> _parse_rule_block(blocks[k], filename)]

\* The for loop of parse_text and the return after it: the first block
\* that raises ends the loop. Every raise of _parse_rule_block is a
\* RulesParseError and is raised again as it is.
ParseLoop(blocks, filename) ==
    Only({ IF \E k \in DOMAIN got : got[k].raised
           THEN FirstRaised(got)
           ELSE Ok(RulesDocumentAst([k \in DOMAIN got |-> got[k].value],
                                    SourceSpan(filename))) :
           got \in { BlockResults(blocks, filename) } })

\* ParseLoop going on after a block that raises.
ParseLoop_skipping(blocks, filename) ==
    Only({ Ok(RulesDocumentAst([k \in DOMAIN got |-> got[k].value], SourceSpan(filename))) :
           got \in { SelectSeq(BlockResults(blocks, filename), LAMBDA r : ~r.raised) } })

\* parse_text recovering from malformed blocks.
parse_text_skipping(text, filename) ==
    ParseLoop_skipping(_split_rule_blocks(text), FilenameOr(filename))

parse_text(text, filename) ==
    ParseLoop(_split_rule_blocks(text), FilenameOr(filename))

NoDocument == Ok(RulesDocumentAst(<< >>, SourceSpan(None)))

(* ------------------------------------------------------------------ *)
(* Rule texts                                                          *)
(* ------------------------------------------------------------------ *)

Dash == "- "

\* rule: / id / name / target / when:
Header(id, name, target) ==
    << Line(0, RuleLine),
       Line(2, <<"id", ":", id>>),
       Line(2, <<"name", ":", name>>),
       Line(2, <<"target", ":", target>>),
       Line(2, <<"when", ":">>) >>

\* Items written as strings.
RuleInline ==
    Header("r1", "Inline", "dependency") \o
    << Line(4, <<"all", ":">>),
       Line(6, <<Dash, "from.layer", "==", "domain">>),
       Line(6, <<Dash, "to.layer", "in", "[", "infra", ",", "db", "]">>) >>

\* Items written as mappings (test_when_all_builds_and_ast_with_compare_items).
RuleMappingItems ==
    Header("r2", "Mapping", "dependency") \o
    << Line(4, <<"all", ":">>),
       Line(6, <<Dash, "field", ":", "from.layer">>),
       Line(8, <<"op", ":", "==">>),
       Line(8, <<"value", ":", "domain">>),
       Line(6, <<Dash, "field", ":", "to.layer">>),
       Line(8, <<"op", ":", "==">>),
       Line(8, <<"value", ":", "infra">>) >>

\* One item written as a mapping, under any.
RuleMappingItem ==
    Header("r3", "One", "node") \o
    << Line(4, <<"any", ":">>),
       Line(6, <<Dash, "field", ":", "layer">>),
       Line(8, <<"op", ":", "==">>),
       Line(8, <<"value", ":", "domain">>) >>

RuleAnyInline ==
    Header("r4", "Any", "node") \o
    << Line(4, <<"any", ":">>),
       Line(6, <<Dash, "layer", "==", "domain">>),
       Line(6, <<Dash, "layer", "==", "infra">>) >>

\* test_when_not_builds_not_ast
RuleNot ==
    Header("r5", "Not", "node") \o
    << Line(4, <<"not", ":">>),
       Line(6, <<"field", ":", "layer">>),
       Line(6, <<"op", ":", "==">>),
       Line(6, <<"value", ":", "infra">>) >>

\* A when with two of the three keys.
RuleAllAndAny ==
    Header("r6", "Both", "node") \o
    << Line(4, <<"all", ":">>),
       Line(6, <<Dash, "layer", "==", "domain">>),
       Line(4, <<"any", ":">>),
       Line(6, <<Dash, "layer", "==", "infra">>) >>

\* A when with none of the three keys.
RuleWhenOther ==
    Header("r8", "Other", "node") \o
    << Line(4, <<"x", ":">>),
       Line(6, <<Dash, "layer", "==", "domain">>) >>

\* A when that is a string.
RuleWhenScalar ==
    << Line(0, RuleLine),
       Line(2, <<"id", ":", "r9">>),
       Line(2, <<"name", ":", "Scalar">>),
       Line(2, <<"when", ":", "always">>) >>

RuleNoWhen ==
    << Line(0, RuleLine),
       Line(2, <<"id", ":", "r10">>),
       Line(2, <<"name", ":", "NoWhen">>) >>

\* test_invalid_inline_predicate_is_parse_error
RuleBadInline ==
    Header("r11", "BadInline", "node") \o
    << Line(4, <<"all", ":">>),
       Line(6, <<Dash, "layer", "==">>) >>

\* test_parser_ignores_blocks_not_starting_with_rule
CommentBlock == << Line(0, <<"#", "comment", "block">>) >>

OtherBlock == << Line(0, <<"something", ":">>), Line(2, <<"not", ":", "a", "rule">>) >>

\* A rule with a comment line above it, in the same block.
CommentedRule == << Line(0, <<"#", "a", "comment">>) >> \o RuleNot

RuleBlocks ==
    { RuleInline, RuleMappingItems, RuleMappingItem, RuleAnyInline, RuleNot,
      RuleAllAndAny, RuleWhenOther, RuleWhenScalar, RuleNoWhen, RuleBadInline }

BlockUniverse == RuleBlocks \cup { CommentBlock, OtherBlock, CommentedRule }

MaxBlocks == 3

BlankLine == Line(0, << >>)

RECURSIVE TextOf(_)
\* The blocks one after the other, a blank line after each.
TextOf(blocks) ==
    IF blocks = << >> THEN << >>
    ELSE Head(blocks) \o <<BlankLine>> \o TextOf(Tail(blocks))

Texts == { TextOf(bs) : bs \in SeqUpTo(BlockUniverse, MaxBlocks) }

Filenames == { None, S("rules.txt") }

(* ------------------------------------------------------------------ *)
(* Texts of one rule with one predicate item                           *)
(* ------------------------------------------------------------------ *)

\* The operators of the rule language, and no operator at all.
SupportedOps == { <<"==">>, <<"!=">>, <<"in">>, <<"not", "in">>, <<"matches">> }

ItemOps == SupportedOps \cup { << >> }

ItemValues ==
    { <<"domain">>, <<"core.*">>, <<"true">>, <<"42">>, <<"[", "]">>,
      <<"[", "infra", ",", "db", "]">> }

ItemTargets == { "dependency", "node", "module" }

ItemSeverities == { "warning", "fatal" }

ItemActions == { "allow", "deny" }

\* "all": the item is a string under all; "not": it is a mapping under not.
ItemStyles == { "all", "not" }

\* The lines under when: of the item.
ItemBody(style, op, value) ==
    IF style = "all"
    THEN << Line(4, <<"all", ":">>),
            Line(6, <<Dash, "layer">> \o op \o value) >>
    ELSE << Line(4, <<"not", ":">>),
            Line(6, <<"field", ":", "layer">>),
            Line(6, <<"op", ":">> \o op),
            Line(6, <<"value", ":">> \o value) >>

\* A field line after the when block, indented less than the fields.
DedentedLine == Line(1, <<"message", ":", "use", "ports">>)

OneRule(severity, action, target, style, op, value, dedented) ==
    << Line(0, RuleLine),
       Line(2, <<"id", ":", "r1">>),
       Line(2, <<"name", ":", "One">>),
       Line(2, <<"severity", ":", severity>>),
       Line(2, <<"action", ":", action>>),
       Line(2, <<"target", ":", target>>),
       Line(2, <<"when", ":">>) >>
    \o ItemBody(style, op, value)
    \o (IF dedented THEN <<DedentedLine>> ELSE << >>)

OneRuleTexts ==
    { TextOf(<<OneRule(severity, action, target, style, op, value, dedented)>>) :
        severity \in ItemSeverities, action \in ItemActions, target \in ItemTargets,
        style \in ItemStyles, op \in ItemOps, value \in ItemValues,
        dedented \in BOOLEAN }

(* ------------------------------------------------------------------ *)
(* dto/, analyzer/_rule_validator.py, analyzer/scanner.py              *)
(*                                                                     *)
(* A str is the sequence of its characters; an optional object is      *)
(* PNone or Given(object).                                             *)
(* ------------------------------------------------------------------ *)

Given(object) == <<"given", object>>

ValueOf(optional) == optional[2]

\* bool(x) of a str or None
StrTruthy(str) == str # None /\ str # << >>

\* bool(x) of a list or None
ListTruthy(optional) == optional # PNone /\ ValueOf(optional) # << >>

\* sub in str
Contains(sub, str) ==
    \E i \in 0..(Len(str) - Len(sub)) : SubSeq(str, i + 1, i + Len(sub)) = sub

\* fnmatch.fnmatch(str, pattern), for patterns of characters and "*"
RECURSIVE Fnmatch(_, _)
Fnmatch(str, pattern) ==
    IF pattern = << >> THEN str = << >>
    ELSE IF Head(pattern) = "*"
    THEN \E k \in 0..Len(str) : Fnmatch(SubSeq(str, k + 1, Len(str)), Tail(pattern))
    ELSE str # << >> /\ Head(str) = Head(pattern) /\ Fnmatch(Tail(str), Tail(pattern))

\* str.split(".")
RECURSIVE SplitDots(_)
SplitDots(str) ==
    IF "." \notin Range(str) THEN <<str>>
    ELSE LET k == CHOOSE i \in DOMAIN str :
                      str[i] = "." /\ \A j \in 1..(i - 1) : str[j] # "."
         IN  <<SubSeq(str, 1, k - 1)>> \o SplitDots(SubSeq(str, k + 1, Len(str)))

\* ".".join(parts)
RECURSIVE JoinDots(_)
JoinDots(parts) ==
    IF parts = << >> THEN << >>
    ELSE IF Len(parts) = 1 THEN parts[1]
    ELSE parts[1] \o <<".">> \o JoinDots(Tail(parts))

\* parts[:-level], for level >= 1
DropLast(parts, level) ==
    IF level >= Len(parts) THEN << >> ELSE SubSeq(parts, 1, Len(parts) - level)

ImportInfo(import_module, line_no, level, from_module) ==
    [import_module |-> import_module, line_no |-> line_no, level |-> level,
     from_module |-> from_module]

ClassInfo(name, decorators, lineno) ==
    [name |-> name, decorators |-> decorators, lineno |-> lineno]

ModuleInfo(name, imports, classes) ==
    [name |-> name, imports |-> imports, classes |-> classes]

ModuleRule(reside_in, do_not_reside_in, should_not_import_from, should_import_from) ==
    [reside_in |-> reside_in, do_not_reside_in |-> do_not_reside_in,
     should_not_import_from |-> should_not_import_from,
     should_import_from |-> should_import_from]

ClassRule(reside_in_module, do_not_reside_in_module, should_have_name_matching, should_have_decorators) ==
    [reside_in_module |-> reside_in_module,
     do_not_reside_in_module |-> do_not_reside_in_module,
     should_have_name_matching |-> should_have_name_matching,
     should_have_decorators |-> should_have_decorators]

MODULES == S("modules")

CLASSES == S("classes")

LAYER_ACCESS == S("layer_access")

ModulesRule(mr) == [rule_type |-> MODULES, module_rule |-> Given(mr), class_rule |-> PNone]

ClassesRule(cr) == [rule_type |-> CLASSES, module_rule |-> PNone, class_rule |-> Given(cr)]

ImportViolation(a_rule, import_) ==
    [violated_rule |-> a_rule, offender_import |-> Given(import_), offender_class |-> PNone]

ClassViolation(a_rule, class_) ==
    [violated_rule |-> a_rule, offender_import |-> PNone, offender_class |-> Given(class_)]

\* ModuleRule.applies_to_module
ModuleRule_applies_to_module(mr, module_name) ==
    IF StrTruthy(mr.reside_in) /\ mr.reside_in # module_name THEN FALSE
    ELSE IF StrTruthy(mr.do_not_reside_in) /\ mr.do_not_reside_in = module_name THEN FALSE
    ELSE TRUE

\* ModuleRule.violates_import
violates_import(mr, fqname) ==
    IF StrTruthy(mr.should_not_import_from) /\ Contains(mr.should_not_import_from, fqname)
    THEN TRUE
    ELSE IF ListTruthy(mr.should_import_from)
            /\ ~(\E i \in DOMAIN ValueOf(mr.should_import_from) :
                    Fnmatch(fqname, ValueOf(mr.should_import_from)[i]))
    THEN TRUE
    ELSE FALSE

\* ClassRule.applies_to_module
ClassRule_applies_to_module(cr, module_name) ==
    IF StrTruthy(cr.reside_in_module) /\ cr.reside_in_module # module_name THEN FALSE
    ELSE IF StrTruthy(cr.do_not_reside_in_module) /\ cr.do_not_reside_in_module = module_name
    THEN FALSE
    ELSE TRUE

\* ClassRule.violates_class
violates_class(cr, class_) ==
    IF StrTruthy(cr.should_have_name_matching)
       /\ ~Fnmatch(class_.name, cr.should_have_name_matching)
    THEN TRUE
    ELSE IF ListTruthy(cr.should_have_decorators)
            /\ ~(\A i \in DOMAIN ValueOf(cr.should_have_decorators) :
                    ValueOf(cr.should_have_decorators)[i] \in Range(class_.decorators))
    THEN TRUE
    ELSE FALSE

\* _resolve_relative_import that puts the from_module into the path.
_resolve_relative_import_keeps_all(current_module, level, imported) == current_module \o <<".">> \o imported

_resolve_relative_import(current_module, level, imported) ==
    LET parts == SplitDots(current_module)
        parent == JoinDots(DropLast(parts, level))
    IN  IF parent # << >> THEN parent \o <<".">> \o imported ELSE imported

_import_to_fqname(imp, current_module) ==
    IF imp.from_module # None /\ imp.level = 0
    THEN imp.from_module \o <<".">> \o imp.import_module
    ELSE IF imp.level = 0 /\ "." \in Range(imp.import_module)
    THEN imp.import_module
    ELSE IF imp.level > 0
    THEN _resolve_relative_import(current_module, imp.level, imp.import_module)
    ELSE imp.import_module

\* self._module_rules
_module_rules(rule_set) == SelectSeq(rule_set, LAMBDA r : r.rule_type = MODULES)

\* self._class_rules
_class_rules(rule_set) == SelectSeq(rule_set, LAMBDA r : r.rule_type = CLASSES)

\* for rule in self._module_rules, from the k-th on, for one import
RECURSIVE ImportRuleLoop(_, _, _, _)
ImportRuleLoop(module, import_, rules, k) ==
    IF k > Len(rules) THEN << >>
    ELSE LET mr == ValueOf(rules[k].module_rule)
             hit == /\ ModuleRule_applies_to_module(mr, module.name)
                    /\ violates_import(mr, _import_to_fqname(import_, module.name))
         IN  (IF hit THEN <<ImportViolation(rules[k], import_)>> ELSE << >>)
                 \o ImportRuleLoop(module, import_, rules, k + 1)

\* for import_ in module.imports, from the i-th on
RECURSIVE ImportLoop(_, _, _)
ImportLoop(module, rules, i) ==
    IF i > Len(module.imports) THEN << >>
    ELSE ImportRuleLoop(module, module.imports[i], rules, 1) \o ImportLoop(module, rules, i + 1)

\* validate_imports that checks the first module rule only.
validate_imports_first_rule_only(rule_set, module) ==
    ImportLoop(module,
               IF _module_rules(rule_set) = << >> THEN << >>
               ELSE <<_module_rules(rule_set)[1]>>,
               1)

\* RuleValidator.validate_imports
validate_imports(rule_set, module) == ImportLoop(module, _module_rules(rule_set), 1)

RECURSIVE ClassRuleLoop(_, _, _, _)
ClassRuleLoop(module, class_, rules, k) ==
    IF k > Len(rules) THEN << >>
    ELSE LET cr == ValueOf(rules[k].class_rule)
             hit == /\ ClassRule_applies_to_module(cr, module.name)
                    /\ violates_class(cr, class_)
         IN  (IF hit THEN <<ClassViolation(rules[k], class_)>> ELSE << >>)
                 \o ClassRuleLoop(module, class_, rules, k + 1)

RECURSIVE ClassLoop(_, _, _)
ClassLoop(module, rules, i) ==
    IF i > Len(module.classes) THEN << >>
    ELSE ClassRuleLoop(module, module.classes[i], rules, 1) \o ClassLoop(module, rules, i + 1)

\* RuleValidator.validate_classes
validate_classes(rule_set, module) == ClassLoop(module, _class_rules(rule_set), 1)

\* dto.ScanResult(success=..., violations=...)
ScanResult(found) == [success |-> Len(found) = 0, violations |-> found]

NoScanResult == [success |-> FALSE, violations |-> << >>]

NoModule == ModuleInfo(None, << >>, << >>)

(* Projects and rule sets *)

MaxModules == 2

MaxRuleSet == 2

ModuleNames == { <<"a", ".", "b", ".", "c">>, <<"a", ".", "b">>, <<"c">> }

ImportedNames == { <<"q">>, <<"b", ".", "q">> }

\* level and from_module: import x; from a import x; from . import x;
\* from .b import x; from .. import x; from ... import x
ImportForms ==
    { <<0, None>>, <<0, <<"a">>>>, <<1, None>>, <<1, <<"b">>>>, <<2, None>>, <<3, None>> }

ImportInfos == { ImportInfo(n, 1, f[1], f[2]) : n \in ImportedNames, f \in ImportForms }

ClassInfos ==
    { ClassInfo(n, d, 1) : n \in { <<"Q">>, <<"Q", "R">> }, d \in { << >>, <<S("d")>> } }

ModuleRules ==
    { ModuleRule(ri, dn, sn, si) :
        ri \in { None, <<"a", ".", "b", ".", "c">> },
        dn \in { None, <<"c">> },
        sn \in { None, <<"a", ".", "b", ".", "q">>, <<"b", ".", "q">> },
        si \in { PNone, Given(<< >>), Given(<< <<"a", ".", "*">> >>) } }

ClassRules ==
    { ClassRule(ri, dn, nm, de) :
        ri \in { None, <<"a", ".", "b">> },
        dn \in { None, <<"c">> },
        nm \in { None, <<"*", "R">> },
        de \in { PNone, Given(<<S("d")>>) } }

\* A rule of a type the validator has no list for.
LayerAccessRule == [rule_type |-> LAYER_ACCESS, module_rule |-> PNone, class_rule |-> PNone]

ScannerRules ==
    { ModulesRule(mr) : mr \in ModuleRules } \cup { ClassesRule(cr) : cr \in ClassRules }
    \cup { LayerAccessRule }

\* The rules of a longer rule set.
SimpleScannerRules ==
    { ModulesRule(ModuleRule(None, None, <<"b", ".", "q">>, PNone)),
      ModulesRule(ModuleRule(None, <<"c">>, None, Given(<< <<"a", ".", "*">> >>))),
      ClassesRule(ClassRule(None, None, <<"*", "R">>, PNone)),
      ClassesRule(ClassRule(<<"a", ".", "b">>, None, None, Given(<<S("d")>>))) }

RuleSets ==
    SeqUpTo(ScannerRules, 1)
    \cup UNION { [1..m -> SimpleScannerRules] : m \in 2..MaxRuleSet }

\* Lists of no, one, or twice the same element of U.
ShortLists(U) == { << >> } \cup { <<x>> : x \in U } \cup { <<x, x>> : x \in U }

ModuleInfos ==
    { ModuleInfo(n, i, c) :
        n \in ModuleNames, i \in ShortLists(ImportInfos), c \in ShortLists(ClassInfos) }

\* The modules of a project of several modules.
SimpleModuleInfos ==
    { ModuleInfo(n, <<i>>, <<c>>) :
        n \in ModuleNames,
        i \in { ImportInfo(<<"q">>, 1, 1, None), ImportInfo(<<"q">>, 1, 0, <<"a">>) },
        c \in { ClassInfo(<<"Q">>, << >>, 1) } }

\* The module of a project of one module ranges over ModuleInfos, the
\* modules of a larger project over SimpleModuleInfos.
ModulesOf(count) == IF count = 1 THEN ModuleInfos ELSE SimpleModuleInfos

(* ------------------------------------------------------------------ *)
(* State                                                               *)
(* ------------------------------------------------------------------ *)

key_vars == <<va, vb, ka, kb, kf_pc>>

cmp_vars == <<current, baseline, result, cmp_pc>>

eval_vars == <<ir, idx, nrules, last_rule, pos, out, contrib, ret, eval_pc>>

val_vars == <<v_ir, v_ir0, v_opts, v_errors, v_pc>>

scan_vars ==
    <<cfg, selected, raw_irs, model, ruleset, engine_errors, violations, diff,
      stages, failed, saved, report, scan_pc, baseline_snapshot, saves, store,
      store0, scan_no, previous>>

parse_vars == <<p_text, p_filename, p_result, parse_pc>>

scanner_vars ==
    <<sc_rule_set, sc_nmodules, sc_seen, sc_module, sc_contrib, sc_violations, sc_result,
      sc_pc>>

vars == <<key_vars, cmp_vars, eval_vars, val_vars, scan_vars, parse_vars, scanner_vars>>

not_scanner_vars == <<key_vars, cmp_vars, eval_vars, val_vars, scan_vars, parse_vars>>

NoResult == [new |-> << >>, existing |-> << >>, fixed |-> << >>]

EmptyIR == [nodes |-> << >>, edges |-> << >>]

\* The components a specification does not run stay as they are here.
KeyIdle ==
    /\ va = None /\ vb = None /\ ka = 0 /\ kb = 0 /\ kf_pc = "idle"

CmpIdle ==
    /\ current = << >> /\ baseline = << >> /\ result = NoResult /\ cmp_pc = "idle"

EvalIdle ==
    /\ ir = EmptyIR /\ idx = EmptyIR /\ nrules = 0 /\ last_rule = NoRule /\ pos = 0
    /\ out = << >> /\ contrib = << >> /\ ret = << >> /\ eval_pc = "idle"

ScanIdle ==
    /\ cfg = [baseline |-> None, model_file |-> FALSE]
    /\ selected = 0 /\ raw_irs = 0 /\ model = FALSE /\ ruleset = << >>
    /\ engine_errors = << >> /\ violations = << >> /\ diff = FALSE
    /\ stages = << >> /\ failed = {} /\ saved = None /\ report = NoReport
    /\ scan_pc = "idle"
    /\ baseline_snapshot = None /\ saves = 0 /\ store = << >> /\ store0 = << >>
    /\ scan_no = 0 /\ previous = "none"

ValIdle ==
    /\ v_ir = EmptyIR /\ v_ir0 = EmptyIR /\ v_opts = None /\ v_errors = << >>
    /\ v_pc = "idle"

ParseIdle ==
    /\ p_text = << >> /\ p_filename = None /\ p_result = NoDocument /\ parse_pc = "idle"

ScannerIdle ==
    /\ sc_rule_set = << >> /\ sc_nmodules = 0 /\ sc_seen = {} /\ sc_module = NoModule
    /\ sc_contrib = << >> /\ sc_violations = << >> /\ sc_result = NoScanResult
    /\ sc_pc = "idle"

(* ------------------------------------------------------------------ *)
(* key_for applied to two violations                                   *)
(* ------------------------------------------------------------------ *)

InitKey ==
    /\ va \in ViolationsA
    /\ vb \in ViolationsB
    /\ ka = 0 /\ kb = 0
    /\ kf_pc = "input"
    /\ CmpIdle /\ EvalIdle /\ ValIdle /\ ScanIdle /\ ParseIdle /\ ScannerIdle

KeyFor ==
    /\ kf_pc = "input"
    /\ ka' = key_for(va)
    /\ kb' = key_for(vb)
    /\ kf_pc' = "done"
    /\ UNCHANGED <<va, vb, cmp_vars, eval_vars, val_vars, scan_vars, parse_vars, scanner_vars>>

NextKey == KeyFor

SpecKey == InitKey /\ [][NextKey]_vars

(* ------------------------------------------------------------------ *)
(* BaselineComparer.compare applied to two collections                 *)
(* ------------------------------------------------------------------ *)

InitCompare ==
    /\ current \in SeqUpTo(CmpViolations, MaxViolations)
    /\ baseline \in SeqUpTo(CmpViolations, MaxViolations)
    /\ result = NoResult
    /\ cmp_pc = "input"
    /\ KeyIdle /\ EvalIdle /\ ValIdle /\ ScanIdle /\ ParseIdle /\ ScannerIdle

Compare ==
    /\ cmp_pc = "input"
    /\ result' = compare(current, baseline)
    /\ cmp_pc' = "done"
    /\ UNCHANGED <<current, baseline, key_vars, eval_vars, val_vars, scan_vars, parse_vars, scanner_vars>>

NextCompare == Compare

SpecCompare == InitCompare /\ [][NextCompare]_vars

(* ------------------------------------------------------------------ *)
(* DefaultRuleEvaluator.evaluate(ir, rules)                            *)
(*                                                                     *)
(* The RuleSet has nrules rules and is read one rule per iteration:    *)
(* EvalRule draws the rule at the next position.                       *)
(* ------------------------------------------------------------------ *)

InitEval ==
    /\ ir \in IRs
    /\ nrules \in 0..MaxRules
    /\ idx = EmptyIR /\ last_rule = NoRule /\ pos = 0
    /\ out = << >> /\ contrib = << >> /\ ret = << >>
    /\ eval_pc = "call"
    /\ KeyIdle /\ CmpIdle /\ ValIdle /\ ScanIdle /\ ParseIdle /\ ScannerIdle

\* idx = _as_index(ir); out = []
EvalCall ==
    /\ eval_pc = "call"
    /\ idx' = _as_index(ir)
    /\ out' = << >>
    /\ eval_pc' = "loop"
    /\ UNCHANGED <<ir, nrules, last_rule, pos, contrib, ret, key_vars, cmp_vars, val_vars, scan_vars, parse_vars, scanner_vars>>

\* for rule in rules.rules: out.extend(...)
EvalRule ==
    /\ eval_pc = "loop"
    /\ pos < nrules
    /\ \E r \in RulesAt(pos + 1, nrules) :
          LET got == EvalOneRule(idx, r)
          IN  /\ last_rule' = r
              /\ pos' = pos + 1
              /\ IF got.raised
                 THEN /\ eval_pc' = "raised"
                      /\ UNCHANGED <<out, contrib>>
                 ELSE /\ out' = out \o got.value
                      /\ contrib' = got.value
                      /\ eval_pc' = "loop"
    /\ UNCHANGED <<ir, idx, nrules, ret, key_vars, cmp_vars, val_vars, scan_vars, parse_vars, scanner_vars>>

\* return tuple(out)
EvalReturn ==
    /\ eval_pc = "loop"
    /\ pos = nrules
    /\ ret' = out
    /\ eval_pc' = "returned"
    /\ UNCHANGED <<ir, idx, nrules, last_rule, pos, out, contrib, key_vars, cmp_vars, val_vars, scan_vars, parse_vars, scanner_vars>>

NextEval == EvalCall \/ EvalRule \/ EvalReturn

SpecEval == InitEval /\ [][NextEval]_vars

(* ------------------------------------------------------------------ *)
(* validate_ir(ir, opts=...)                                           *)
(*                                                                     *)
(* validate_ir reads its arguments and builds a new list; no statement *)
(* of it assigns to the IR or to an element of it.                     *)
(* ------------------------------------------------------------------ *)

InitValidate ==
    /\ v_ir \in ValIRs
    /\ v_ir0 = v_ir
    /\ v_opts \in ValOptions
    /\ v_errors = << >>
    /\ v_pc = "call"
    /\ KeyIdle /\ CmpIdle /\ EvalIdle /\ ScanIdle /\ ParseIdle /\ ScannerIdle

ValidateIr ==
    /\ v_pc = "call"
    /\ v_errors' = validate_ir(v_ir, v_opts)
    /\ v_pc' = "returned"
    /\ UNCHANGED <<v_ir, v_ir0, v_opts, key_vars, cmp_vars, eval_vars, scan_vars, parse_vars, scanner_vars>>

NextValidate == ValidateIr

SpecValidate == InitValidate /\ [][NextValidate]_vars

(* ------------------------------------------------------------------ *)
(* DslRulesParserV0.parse_text(text, filename=...)                     *)
(* ------------------------------------------------------------------ *)

InitParse ==
    /\ p_text \in Texts
    /\ p_filename \in Filenames
    /\ p_result = NoDocument
    /\ parse_pc = "call"
    /\ KeyIdle /\ CmpIdle /\ EvalIdle /\ ValIdle /\ ScanIdle /\ ScannerIdle

ParseText ==
    /\ parse_pc = "call"
    /\ p_result' = parse_text(p_text, p_filename)
    /\ parse_pc' = "done"
    /\ UNCHANGED <<p_text, p_filename, key_vars, cmp_vars, eval_vars, val_vars, scan_vars,
                   scanner_vars>>

NextParse == ParseText

SpecParse == InitParse /\ [][NextParse]_vars

\* parse_text on the texts of one rule with one predicate item.
InitBlock ==
    /\ p_text \in OneRuleTexts
    /\ p_filename \in Filenames
    /\ p_result = NoDocument
    /\ parse_pc = "call"
    /\ KeyIdle /\ CmpIdle /\ EvalIdle /\ ValIdle /\ ScanIdle /\ ScannerIdle

SpecBlock == InitBlock /\ [][NextParse]_vars

(* ------------------------------------------------------------------ *)
(* DefaultArchGuardEngine.scan(cfg)                                    *)
(*                                                                     *)
(* Every call of a collaborator either returns or raises; a raise      *)
(* outside a try block leaves scan.                                    *)
(* ------------------------------------------------------------------ *)

not_scan_vars == <<key_vars, cmp_vars, eval_vars, val_vars, parse_vars, scanner_vars>>

\* What a call of scan leaves as it is.
scan_call_vars == <<store0, scan_no, previous>>

\* What scan reads of an EngineConfig.
EngineConfigs == [baseline : BaselineRefs, model_file : BOOLEAN]

\* The locals of scan when it is called.
ScanCalled ==
    /\ selected = 0 /\ raw_irs = 0 /\ model = FALSE /\ ruleset = << >>
    /\ engine_errors = << >> /\ violations = << >> /\ diff = FALSE
    /\ stages = << >> /\ failed = {} /\ saved = None /\ report = NoReport
    /\ baseline_snapshot = None /\ saves = 0
    /\ scan_pc = "vcs"

InitScan ==
    /\ cfg \in EngineConfigs
    /\ ScanCalled
    /\ store \in StoresBefore /\ store0 = store
    /\ scan_no = 1 /\ previous = "none"
    /\ KeyIdle /\ CmpIdle /\ EvalIdle /\ ValIdle /\ ParseIdle /\ ScannerIdle

\* An exception leaves scan: who raised it.
Escapes(who) ==
    /\ scan_pc' = "raised"
    /\ failed' = failed \cup {who}
    /\ UNCHANGED <<cfg, selected, raw_irs, model, ruleset, engine_errors, violations,
                   diff, stages, saved, saves, store, baseline_snapshot, report>>

\* commit = self.vcs.current_commit(cfg.repo_root)
ScanVcs ==
    /\ scan_pc = "vcs"
    /\ \/ /\ scan_pc' = "registry"
          /\ UNCHANGED <<cfg, selected, raw_irs, model, ruleset, engine_errors,
                         violations, diff, stages, failed, saved, saves, store, baseline_snapshot, report>>
       \/ Escapes("vcs")
    /\ UNCHANGED <<not_scan_vars, scan_call_vars>>

\* self.registry.load_entrypoints(); selected = self.registry.best_for_repo(...)
ScanRegistry ==
    /\ scan_pc = "registry"
    /\ \/ \E n \in 0..MaxAnalyzers :
             /\ selected' = n
             /\ engine_errors' = IF n = 0 THEN Append(engine_errors, NoAnalyzersError)
                                 ELSE engine_errors
             /\ scan_pc' = "analyze"
             /\ UNCHANGED <<cfg, raw_irs, model, ruleset, violations, diff, stages,
                            failed, saved, saves, store, baseline_snapshot, report>>
       \/ Escapes("registry")
    /\ UNCHANGED <<not_scan_vars, scan_call_vars>>

\* for loaded in selected: try: raw_irs.append(analyze(...)) except Exception: ...
ScanAnalyze ==
    /\ scan_pc = "analyze"
    /\ selected > 0
    /\ selected' = selected - 1
    /\ \/ /\ raw_irs' = raw_irs + 1
          /\ UNCHANGED <<engine_errors, failed>>
       \/ /\ engine_errors' = Append(engine_errors, AnalyzerFailedError)
          /\ failed' = failed \cup {"analyzer"}
          /\ UNCHANGED raw_irs
    /\ UNCHANGED <<cfg, model, ruleset, violations, diff, stages, saved, saves, store, baseline_snapshot, report, scan_pc>>
    /\ UNCHANGED <<not_scan_vars, scan_call_vars>>

\* combined_ir = merge(raw_irs) if raw_irs else ArchitectureIR.empty(...)
ScanMerge ==
    /\ scan_pc = "analyze"
    /\ selected = 0
    /\ \/ /\ stages' = IF raw_irs > 0 THEN Append(stages, "merge") ELSE stages
          /\ scan_pc' = "normalize"
          /\ UNCHANGED <<cfg, selected, raw_irs, model, ruleset, engine_errors,
                         violations, diff, failed, saved, saves, store, baseline_snapshot, report>>
       \/ /\ raw_irs > 0
          /\ Escapes("merge")
    /\ UNCHANGED <<not_scan_vars, scan_call_vars>>

\* normalized_ir = self.ir_normalizer.normalize(combined_ir)
ScanNormalize ==
    /\ scan_pc = "normalize"
    /\ \/ /\ stages' = Append(stages, "normalize")
          /\ scan_pc' = "model"
          /\ UNCHANGED <<cfg, selected, raw_irs, model, ruleset, engine_errors,
                         violations, diff, failed, saved, saves, store, baseline_snapshot, report>>
       \/ Escapes("normalize")
    /\ UNCHANGED <<not_scan_vars, scan_call_vars>>

\* if cfg.model_file and cfg.model_file.exists(): try: load, validate, resolve
ScanModel ==
    /\ scan_pc = "model"
    /\ scan_pc' = "enrich"
    /\ IF cfg.model_file
       THEN \/ \E errs \in {<< >>, <<ModelValidatorError>>} :
                  /\ model' = TRUE
                  /\ engine_errors' = engine_errors \o errs
                  /\ UNCHANGED failed
            \/ \E errs \in {<< >>, <<ModelValidatorError>>} :
                  \* load raised (errs empty), or resolve raised after validate
                  /\ model' = FALSE
                  /\ engine_errors' = Append(engine_errors \o errs, ModelFailedError)
                  /\ failed' = failed \cup {"model"}
       ELSE UNCHANGED <<model, engine_errors, failed>>
    /\ UNCHANGED <<cfg, selected, raw_irs, ruleset, violations, diff, stages, saved, saves, store, baseline_snapshot, report>>
    /\ UNCHANGED <<not_scan_vars, scan_call_vars>>

\* enriched_ir = normalized_ir; if model is not None: try: enrich(...)
ScanEnrich ==
    /\ scan_pc = "enrich"
    /\ scan_pc' = "rules"
    /\ IF model
       THEN \/ UNCHANGED <<engine_errors, failed>>
            \/ /\ engine_errors' = Append(engine_errors, EnrichFailedError)
               /\ failed' = failed \cup {"enrich"}
       ELSE UNCHANGED <<engine_errors, failed>>
    /\ UNCHANGED <<cfg, selected, raw_irs, model, ruleset, violations, diff, stages,
                   saved, saves, store, baseline_snapshot, report>>
    /\ UNCHANGED <<not_scan_vars, scan_call_vars>>

\* try: load_sources, parse_many, compile except Exception: ... RuleSet.empty()
ScanRules ==
    /\ scan_pc = "rules"
    /\ scan_pc' = "evaluate"
    /\ \/ \E rs \in SeqUpTo(ScanRuleKinds, MaxScanRules) :
             /\ ruleset' = rs
             /\ stages' = Append(stages, "compile")
             /\ UNCHANGED <<engine_errors, failed>>
       \/ \E reached_compile \in BOOLEAN :
             /\ ruleset' = RuleSetEmpty
             /\ stages' = IF reached_compile THEN Append(stages, "compile") ELSE stages
             /\ engine_errors' = Append(engine_errors, RulesFailedError)
             /\ failed' = failed \cup {"rules"}
    /\ UNCHANGED <<cfg, selected, raw_irs, model, violations, diff, saved, saves, store, baseline_snapshot, report>>
    /\ UNCHANGED <<not_scan_vars, scan_call_vars>>

\* try: violations = evaluate(enriched_ir, ruleset) except Exception: ...
\* evaluate builds the index, then extends its list rule by rule; an
\* exception can leave it after any number of rules, and one that is not an
\* Exception (KeyboardInterrupt, a cancellation) also leaves scan.
ScanEvaluate ==
    /\ scan_pc = "evaluate"
    /\ \/ /\ violations' = EvaluateAll(ruleset)
          /\ stages' = stages \o <<"index", "evaluate">>
          /\ scan_pc' = "snapshot"
          /\ UNCHANGED <<engine_errors, failed>>
       \/ \E done \in 0..Len(ruleset) :
             /\ violations' = AfterEvaluateFailed(ViolationsOfPrefix(ruleset, done))
             /\ stages' = stages \o <<"index", "evaluate">>
             /\ engine_errors' = Append(engine_errors, EvaluationFailedError)
             /\ failed' = failed \cup {"evaluate"}
             /\ scan_pc' = "snapshot"
       \/ /\ scan_pc' = "raised"
          /\ failed' = failed \cup {"evaluate-interrupted"}
          /\ stages' = stages \o <<"index", "evaluate">>
          /\ UNCHANGED <<engine_errors, violations>>
    /\ UNCHANGED <<cfg, selected, raw_irs, model, ruleset, diff, saved, saves, store, baseline_snapshot, report>>
    /\ UNCHANGED <<not_scan_vars, scan_call_vars>>

\* snapshot = self.snapshot_builder.build(enriched_ir, meta=...)
ScanSnapshot ==
    /\ scan_pc = "snapshot"
    /\ \/ /\ stages' = Append(stages, "snapshot")
          /\ scan_pc' = "baseline"
          /\ UNCHANGED <<cfg, selected, raw_irs, model, ruleset, engine_errors,
                         violations, diff, failed, saved, saves, store, baseline_snapshot, report>>
       \/ Escapes("snapshot_builder")
    /\ UNCHANGED <<not_scan_vars, scan_call_vars>>

\* if cfg.baseline: if exists(...): load, diff, mark_status else: error
ScanBaseline ==
    /\ scan_pc = "baseline"
    /\ IF cfg.baseline # None
       THEN \/ /\ StoreExists(store, cfg.baseline)   \* exists, load, diff, mark_status
               /\ baseline_snapshot' = StoreLoad(store, cfg.baseline)
               /\ diff' = TRUE
               /\ stages' = stages \o <<"diff", "baseline-compare">>
               /\ scan_pc' = "save"
               /\ UNCHANGED <<engine_errors, failed, violations>>
            \/ /\ ~StoreExists(store, cfg.baseline)
               /\ engine_errors' = AfterBaselineMissing(engine_errors)
               /\ scan_pc' = "save"
               /\ UNCHANGED <<diff, stages, failed, violations, baseline_snapshot>>
            \/ /\ scan_pc' = "raised"               \* exists raised
               /\ failed' = failed \cup {"store.exists"}
               /\ UNCHANGED <<diff, stages, engine_errors, violations, baseline_snapshot>>
            \/ /\ StoreExists(store, cfg.baseline)   \* load raised
               /\ scan_pc' = "raised"
               /\ failed' = failed \cup {"store.load"}
               /\ UNCHANGED <<diff, stages, engine_errors, violations, baseline_snapshot>>
            \/ /\ StoreExists(store, cfg.baseline)   \* diff raised
               /\ baseline_snapshot' = StoreLoad(store, cfg.baseline)
               /\ scan_pc' = "raised"
               /\ failed' = failed \cup {"diff"}
               /\ UNCHANGED <<diff, stages, engine_errors, violations>>
            \/ /\ StoreExists(store, cfg.baseline)   \* mark_status raised
               /\ baseline_snapshot' = StoreLoad(store, cfg.baseline)
               /\ scan_pc' = "raised"
               /\ failed' = failed \cup {"mark_status"}
               /\ diff' = TRUE
               /\ stages' = Append(stages, "diff")
               /\ UNCHANGED <<engine_errors, violations>>
       ELSE /\ scan_pc' = "save"
            /\ UNCHANGED <<diff, stages, engine_errors, failed, violations,
                           baseline_snapshot>>
    /\ UNCHANGED <<cfg, selected, raw_irs, model, ruleset, saved, saves, store, report>>
    /\ UNCHANGED <<not_scan_vars, scan_call_vars>>

\* self.snapshot_store.save(snapshot, ref="latest"); a save that raises may
\* or may not have written.
ScanSave ==
    /\ scan_pc = "save"
    /\ \/ /\ saved' = SavedRef
          /\ saves' = saves + 1
          /\ store' = StoreSave(store, scan_no, SavedRef)
          /\ scan_pc' = "report"
          /\ UNCHANGED failed
       \/ /\ store' \in {store, StoreSave(store, scan_no, SavedRef)}
          /\ saves' = saves + 1
          /\ scan_pc' = "raised"
          /\ failed' = failed \cup {"store.save"}
          /\ UNCHANGED saved
    /\ UNCHANGED <<cfg, selected, raw_irs, model, ruleset, engine_errors, violations,
                   diff, stages, report, baseline_snapshot>>
    /\ UNCHANGED <<not_scan_vars, scan_call_vars>>

\* report = self.report_builder.build(...); return ScanResult(...)
ScanReport ==
    /\ scan_pc = "report"
    /\ \/ /\ report' = [built |-> TRUE, violations |-> violations,
                        engine_errors |-> engine_errors, diff |-> diff]
          /\ scan_pc' = "returned"
          /\ UNCHANGED <<cfg, selected, raw_irs, model, ruleset, engine_errors,
                         violations, diff, stages, failed, saved, saves, store,
                         baseline_snapshot>>
       \/ Escapes("report_builder")
    /\ UNCHANGED <<not_scan_vars, scan_call_vars>>

\* scan is called again, on the store the call before it left.
ScanAgain ==
    /\ scan_pc \in {"returned", "raised"}
    /\ scan_no < MaxScans
    /\ cfg' \in EngineConfigs
    /\ selected' = 0 /\ raw_irs' = 0 /\ model' = FALSE /\ ruleset' = << >>
    /\ engine_errors' = << >> /\ violations' = << >> /\ diff' = FALSE
    /\ stages' = << >> /\ failed' = {} /\ saved' = None /\ report' = NoReport
    /\ baseline_snapshot' = None /\ saves' = 0
    /\ scan_pc' = "vcs"
    /\ store0' = store
    /\ scan_no' = scan_no + 1
    /\ previous' = scan_pc
    /\ UNCHANGED store
    /\ UNCHANGED not_scan_vars

NextScan ==
    \/ ScanVcs \/ ScanRegistry \/ ScanAnalyze \/ ScanMerge \/ ScanNormalize
    \/ ScanModel \/ ScanEnrich \/ ScanRules \/ ScanEvaluate \/ ScanSnapshot
    \/ ScanBaseline \/ ScanSave \/ ScanReport \/ ScanAgain

SpecScan == InitScan /\ [][NextScan]_vars

(* ------------------------------------------------------------------ *)
(* Scanner(rule_set).scan_project_root(project_root)                   *)
(*                                                                     *)
(* project_root.modules is a dict by module name: its values are read  *)
(* one module per iteration, ScannerModule draws the next.             *)
(* ------------------------------------------------------------------ *)

InitScanner ==
    /\ sc_rule_set \in RuleSets
    /\ sc_nmodules \in 0..MaxModules
    /\ sc_seen = {} /\ sc_module = NoModule /\ sc_contrib = << >>
    /\ sc_violations = << >> /\ sc_result = NoScanResult
    /\ sc_pc = "loop"
    /\ KeyIdle /\ CmpIdle /\ EvalIdle /\ ValIdle /\ ScanIdle /\ ParseIdle

\* for module in project_root.modules.values(): violations.extend(...)
ScannerModule ==
    /\ sc_pc = "loop"
    /\ Cardinality(sc_seen) < sc_nmodules
    /\ \E module \in ModulesOf(sc_nmodules) :
          /\ module.name \notin sc_seen
          /\ sc_module' = module
          /\ sc_seen' = sc_seen \cup {module.name}
          /\ sc_contrib' = validate_imports(sc_rule_set, module)
                               \o validate_classes(sc_rule_set, module)
          /\ sc_violations' = sc_violations \o sc_contrib'
    /\ UNCHANGED <<sc_rule_set, sc_nmodules, sc_result, sc_pc>>
    /\ UNCHANGED not_scanner_vars

\* return dto.ScanResult(success=len(violations) == 0, violations=violations)
ScannerReturn ==
    /\ sc_pc = "loop"
    /\ Cardinality(sc_seen) = sc_nmodules
    /\ sc_result' = ScanResult(sc_violations)
    /\ sc_pc' = "returned"
    /\ UNCHANGED <<sc_rule_set, sc_nmodules, sc_seen, sc_module, sc_contrib, sc_violations>>
    /\ UNCHANGED not_scanner_vars

NextScanner == ScannerModule \/ ScannerReturn

SpecScanner == InitScanner /\ [][NextScanner]_vars

(* ------------------------------------------------------------------ *)
(* Claims: baseline                                                    *)
(* ------------------------------------------------------------------ *)

KeySet(items) == {key_for(items[i]) : i \in DOMAIN items}

\* C1: after compare, the keys of new and existing together are the keys of
\* current, the keys of existing and fixed together are the keys of
\* baseline, and no key is both in new and in fixed (also when several
\* violations of a collection share a key).
C1_SetAlgebra ==
    cmp_pc = "done" =>
        /\ KeySet(result.new) \cup KeySet(result.existing) = KeySet(current)
        /\ KeySet(result.existing) \cup KeySet(result.fixed) = KeySet(baseline)
        /\ KeySet(result.new) \cap KeySet(result.fixed) = {}

\* C1 witness: compare has run on collections in which two violations share
\* a key, with a key in each of new, existing and fixed.
C1_Witness ==
    /\ cmp_pc = "done"
    /\ Len(current) = 2 /\ key_for(current[1]) = key_for(current[2])
    /\ current[1] # current[2]
    /\ Len(result.existing) = 1
    /\ Len(result.fixed) = 1

SameSubject(a, b) ==
    /\ DictGet(a.details, "target") = DictGet(b.details, "target")
    /\ DictGet(a.details, "dep_type") = DictGet(b.details, "dep_type")
    /\ DictGet(a.details, "src_id") = DictGet(b.details, "src_id")
    /\ DictGet(a.details, "dst_id") = DictGet(b.details, "dst_id")
    /\ DictGet(a.details, "node_id") = DictGet(b.details, "node_id")

\* C2: two violations that agree on rule id, target kind and subject
\* identity get the same key, whatever their details.target is and however
\* their message, suggestion, location, severity and rule name differ.
C2_KeyIgnoresWording ==
    (kf_pc = "done" /\ va.rule_id = vb.rule_id /\ SameSubject(va, vb)) => ka = kb

\* C3: two violations of the same target kind (dependency or node) whose
\* rule ids differ, or whose subject identities differ, get different keys.
C3_KeySensitive ==
    (/\ kf_pc = "done"
     /\ DictGet(va.details, "target") = DictGet(vb.details, "target")
     /\ DictGet(va.details, "target") \in {S("dependency"), S("node")}
     /\ (va.rule_id # vb.rule_id \/ ~SameSubject(va, vb)))
    => ka # kb

\* C3 witness: two dependency violations of one rule that differ in dst_id
\* only have been keyed.
C3_Witness ==
    /\ kf_pc = "done"
    /\ va.rule_id = vb.rule_id
    /\ DictGet(va.details, "target") = S("dependency")
    /\ DictGet(vb.details, "target") = S("dependency")
    /\ DictGet(va.details, "dep_type") = DictGet(vb.details, "dep_type")
    /\ DictGet(va.details, "src_id") = DictGet(vb.details, "src_id")
    /\ DictGet(va.details, "dst_id") \in IdStrings
    /\ DictGet(vb.details, "dst_id") \in IdStrings
    /\ DictGet(va.details, "dst_id") # DictGet(vb.details, "dst_id")
    /\ va.message # vb.message
    /\ ka # kb

(* ------------------------------------------------------------------ *)
(* Claims: evaluator                                                   *)
(* ------------------------------------------------------------------ *)

\* The elements a rule is matched against.
TargetElems(index, r) ==
    IF r.target = NODE THEN index.nodes
    ELSE IF r.target = DEPENDENCY THEN index.edges
    ELSE << >>

\* The rule's predicate holds on e and no exception predicate holds on e.
Survives(r, e) ==
    /\ r.when[e] = "T"
    /\ \A j \in DOMAIN r.except_when : r.except_when[j][e] # "T"

\* Violation v carries the identity of element e of r's target kind.
HasIdentity(v, r, e) ==
    IF r.target = NODE
    THEN /\ DictGet(v.details, "target") = NODE
         /\ DictGet(v.details, "node_id") = CanonicalIdStr(e.id)
    ELSE /\ DictGet(v.details, "target") = DEPENDENCY
         /\ DictGet(v.details, "dep_type") = e.dep_type
         /\ DictGet(v.details, "src_id") = CanonicalIdStr(e.src)
         /\ DictGet(v.details, "dst_id") = CanonicalIdStr(e.dst)

NoIdentity(v) ==
    /\ DictGet(v.details, "node_id") = None
    /\ DictGet(v.details, "dep_type") = None
    /\ DictGet(v.details, "src_id") = None
    /\ DictGet(v.details, "dst_id") = None

\* An iteration of the loop has ended: last_rule is its rule, contrib what
\* it contributed.
AfterIteration == eval_pc \in {"loop", "returned"} /\ pos >= 1

\* out ends with what the last iteration contributed.
ContributedLast ==
    /\ Len(out) >= Len(contrib)
    /\ SubSeq(out, Len(out) - Len(contrib) + 1, Len(out)) = contrib

HasTarget(r) == r.target \in {NODE, DEPENDENCY}

\* C4: a FORBID rule contributes exactly one Violation for each element of
\* its target kind on which its predicate holds and no exception predicate
\* holds, none for any other element, and each carries its element's
\* identity.
C4_Forbid ==
    (AfterIteration /\ HasTarget(last_rule) /\ last_rule.action = FORBID) =>
        LET elems == TargetElems(idx, last_rule)
        IN  /\ ContributedLast
            /\ \A i \in DOMAIN elems :
                  Cardinality({k \in DOMAIN contrib :
                                   HasIdentity(contrib[k], last_rule, elems[i])})
                  = IF Survives(last_rule, elems[i]) THEN 1 ELSE 0
            /\ \A k \in DOMAIN contrib :
                  /\ contrib[k].rule_id = last_rule.id
                  /\ \E i \in DOMAIN elems : HasIdentity(contrib[k], last_rule, elems[i])

\* C4 witness: a FORBID dependency rule has been evaluated on two edges, one
\* that survives and one that its predicate matches and an exception
\* excludes, and contributed one violation.
C4_Witness ==
    /\ AfterIteration /\ last_rule.action = FORBID /\ last_rule.target = DEPENDENCY
    /\ Len(idx.edges) = 2
    /\ \E i, j \in DOMAIN idx.edges :
          /\ Survives(last_rule, idx.edges[i])
          /\ last_rule.when[idx.edges[j]] = "T"
          /\ ~Survives(last_rule, idx.edges[j])
    /\ Len(contrib) = 1

\* C5: a REQUIRE rule contributes, when no element of its target kind
\* survives matching, exactly one Violation without location and without
\* element identity whose message is the rule's message or, for a rule
\* without one, "Required <target> pattern not found."; and nothing when an
\* element survives.
C5_Require ==
    (AfterIteration /\ HasTarget(last_rule) /\ last_rule.action = REQUIRE) =>
        LET elems == TargetElems(idx, last_rule)
        IN  /\ ContributedLast
            /\ IF \E i \in DOMAIN elems : Survives(last_rule, elems[i])
               THEN contrib = << >>
               ELSE /\ Len(contrib) = 1
                    /\ contrib[1].rule_id = last_rule.id
                    /\ contrib[1].location = None
                    /\ NoIdentity(contrib[1])
                    /\ contrib[1].message =
                          IF last_rule.message # None
                          THEN last_rule.message
                          ELSE <<"Required ">> \o last_rule.target
                                   \o <<" pattern not found.">>

\* C5 witness: a REQUIRE node rule without message has been evaluated on an
\* IR with nodes none of which survives, and contributed its one violation.
C5_Witness ==
    /\ AfterIteration /\ last_rule.action = REQUIRE /\ last_rule.target = NODE
    /\ last_rule.message = None
    /\ Len(idx.nodes) = 2
    /\ Len(contrib) = 1
    /\ contrib[1].message = <<"Required ", "node", " pattern not found.">>

\* The index without the elements on which r's predicate raises.
WithoutRaising(index, r) ==
    [nodes |-> SelectSeq(index.nodes,
                         LAMBDA n : ~(r.target = NODE /\ r.when[n] = "RAISE")),
     edges |-> SelectSeq(index.edges,
                         LAMBDA e : ~(r.target = DEPENDENCY /\ r.when[e] = "RAISE"))]

\* C6: a predicate that raises on an element never makes evaluate raise,
\* and the rule contributes what it would contribute were the elements it
\* raises on absent from the IR; the contribution is appended to out.
C6_Isolation ==
    /\ eval_pc # "raised"
    /\ AfterIteration =>
          /\ contrib = EvalOneRule(WithoutRaising(idx, last_rule), last_rule).value
          /\ ContributedLast

\* C6 witness: evaluate has returned from a RuleSet of two rules whose last
\* rule, a FORBID rule, raised on one node and matched the other.
C6_Witness ==
    /\ eval_pc = "returned" /\ nrules = 2
    /\ last_rule.action = FORBID /\ last_rule.target = NODE
    /\ Len(idx.nodes) = 2
    /\ last_rule.when[idx.nodes[1]] = "RAISE"
    /\ last_rule.when[idx.nodes[2]] = "T"
    /\ Len(contrib) = 1
    /\ HasIdentity(contrib[1], last_rule, idx.nodes[2])
    /\ ret = out

Excluded(r, e) == \E j \in DOMAIN r.except_when : r.except_when[j][e] = "T"

\* C7: an element on which an exception predicate returns true is never a
\* match: a FORBID rule contributes no violation for it, and it does not
\* satisfy a REQUIRE rule, whatever the main predicate returns.
C7_Exceptions ==
    (AfterIteration /\ HasTarget(last_rule)) =>
        LET elems == TargetElems(idx, last_rule)
        IN  /\ last_rule.action = FORBID =>
                  \A i \in DOMAIN elems : \A k \in DOMAIN contrib :
                      Excluded(last_rule, elems[i]) =>
                          ~HasIdentity(contrib[k], last_rule, elems[i])
            /\ (/\ last_rule.action = REQUIRE
                /\ \A i \in DOMAIN elems : Excluded(last_rule, elems[i]))
               => Len(contrib) = 1

\* C7 witness: a FORBID rule has been evaluated on a node its predicate
\* matches and an exception predicate excludes, and contributed nothing.
C7_Witness ==
    /\ AfterIteration /\ last_rule.action = FORBID /\ last_rule.target = NODE
    /\ Len(idx.nodes) = 1
    /\ last_rule.when[idx.nodes[1]] = "T"
    /\ Excluded(last_rule, idx.nodes[1])
    /\ contrib = << >>

RulePosition(v) == CHOOSE k \in DOMAIN RuleIdAt : RuleIdAt[k] = v.rule_id

\* The order of the canonical id strings python://svc::a < python://svc::b.
IdRank(id_string) == IF id_string = CanonicalIdStr(IdA) THEN 1 ELSE 2

\* The sort key of a violation's element: node id; (src, dst, dep_type).
ElementKey(v) ==
    IF DictGet(v.details, "node_id") # None
    THEN <<IdRank(v.details.node_id), 0>>
    ELSE IF DictGet(v.details, "src_id") # None
    THEN <<IdRank(v.details.src_id), IdRank(v.details.dst_id)>>
    ELSE <<0, 0>>

KeyLeq(a, b) == a[1] < b[1] \/ (a[1] = b[1] /\ a[2] <= b[2])

\* C8: the violations returned are ordered by the position of their rule in
\* the RuleSet and, within one rule, by the canonical identity of the
\* matched element, whatever the order of the IR's node and edge sequences.
C8_Ordered ==
    eval_pc = "returned" =>
        \A i, j \in DOMAIN ret :
            i < j =>
                \/ RulePosition(ret[i]) < RulePosition(ret[j])
                \/ /\ RulePosition(ret[i]) = RulePosition(ret[j])
                   /\ KeyLeq(ElementKey(ret[i]), ElementKey(ret[j]))

\* C9: an ALLOW rule contributes nothing, whatever its predicate and its
\* exception predicates return or raise.
C9_Allow ==
    /\ eval_pc # "raised"
    /\ (AfterIteration /\ last_rule.action = ALLOW) =>
          /\ contrib = << >>
          /\ nrules = 1 => out = << >>

\* C9 witness: evaluate has returned nothing from a RuleSet of one ALLOW rule
\* whose predicate matched one node and raised on the other.
C9_Witness ==
    /\ eval_pc = "returned" /\ nrules = 1
    /\ last_rule.action = ALLOW /\ last_rule.target = NODE
    /\ Len(idx.nodes) = 2
    /\ last_rule.when[idx.nodes[1]] = "T"
    /\ last_rule.when[idx.nodes[2]] = "RAISE"
    /\ ret = << >>

(* ------------------------------------------------------------------ *)
(* Claims: validate_ir                                                 *)
(* ------------------------------------------------------------------ *)

\* A confidence that is not a number of [0, 1].
OutsideUnitInterval(c) == c = NaN \/ c[2] < 0 \/ c[2] > 10

NodeIdStrings(an_ir) == {CanonicalIdStr(an_ir.nodes[i].id) : i \in DOMAIN an_ir.nodes}

\* Everything validate_ir looks at is in order, the confidences apart.
SoundButConfidence(an_ir, opts) ==
    LET o == IF opts = None THEN DefaultOptions ELSE opts
    IN  /\ an_ir.schema_version > 0
        /\ \A i, j \in DOMAIN an_ir.nodes :
              i # j => CanonicalIdStr(an_ir.nodes[i].id) # CanonicalIdStr(an_ir.nodes[j].id)
        /\ max_nodes(o) # None => Len(an_ir.nodes) <= max_nodes(o)[2]
        /\ max_edges(o) # None => Len(an_ir.edges) <= max_edges(o)[2]
        /\ strict_references(o) =>
              \A i \in DOMAIN an_ir.edges :
                  /\ CanonicalIdStr(an_ir.edges[i].src) \in NodeIdStrings(an_ir)
                  /\ CanonicalIdStr(an_ir.edges[i].dst) \in NodeIdStrings(an_ir)

BadConfidenceEdges(an_ir) ==
    {i \in DOMAIN an_ir.edges : OutsideUnitInterval(an_ir.edges[i].confidence)}

\* C10: validate_ir can always be taken to its return; when it has returned,
\* the IR is as it was before the call, the value returned is a list of
\* EngineError, and for an IR whose only defect is one edge with a
\* confidence outside [0,1] that list has exactly one error, about that edge.
C10_ValidateReadOnly ==
    /\ v_pc = "call" => ENABLED ValidateIr
    /\ v_pc = "returned" =>
          /\ v_ir = v_ir0
          /\ \A i \in DOMAIN v_errors :
                DOMAIN v_errors[i] = {"type", "message", "location", "details"}
          /\ (SoundButConfidence(v_ir, v_opts)
              /\ Cardinality(BadConfidenceEdges(v_ir)) = 1) =>
                /\ Len(v_errors) = 1
                /\ v_errors[1].message = S("Edge confidence must be within [0,1]")
                /\ \E i \in BadConfidenceEdges(v_ir) :
                      v_errors[1].details.confidence = v_ir.edges[i].confidence

\* C10 witness: validate_ir has returned one error for an IR, sound in
\* strict mode, of two edges of which one has confidence 1.7.
C10_Witness ==
    /\ v_pc = "returned"
    /\ v_opts # None /\ strict_references(v_opts)
    /\ SoundButConfidence(v_ir, v_opts)
    /\ Len(v_ir.edges) = 2
    /\ v_ir.edges[2].confidence = Float(17)
    /\ BadConfidenceEdges(v_ir) = {2}
    /\ Len(v_errors) = 1
    /\ v_ir = v_ir0

\* C11: validate_ir returns the empty list exactly when schema_version > 0,
\* no two nodes share a canonical id string, every edge confidence is within
\* [0,1], the size limits that are set are kept and, in strict mode, every
\* edge's src and dst are ids of nodes of the IR; and without strict mode no
\* error is about an edge end that is not a node of the IR.
C11_EmptyExactlyWhenSound ==
    v_pc = "returned" =>
        /\ (v_errors = << >>) <=>
              (SoundButConfidence(v_ir, v_opts) /\ BadConfidenceEdges(v_ir) = {})
        /\ (v_opts = None \/ ~strict_references(v_opts)) =>
              \A i \in DOMAIN v_errors :
                  v_errors[i].message # S("Edge references missing node(s) (strict mode)")

\* C11 witness: validate_ir, without strict mode, has returned the empty list
\* for an IR with an edge whose dst is not a node of the IR.
C11_Witness ==
    /\ v_pc = "returned"
    /\ v_opts # None /\ ~strict_references(v_opts)
    /\ Len(v_ir.edges) = 2
    /\ \E i \in DOMAIN v_ir.edges :
          CanonicalIdStr(v_ir.edges[i].dst) \notin NodeIdStrings(v_ir)
    /\ v_errors = << >>

IsEmptyId(id) == id.code_root = << >> /\ id.fqname = << >>

HasEmptyId(an_ir) ==
    \/ \E i \in DOMAIN an_ir.nodes : IsEmptyId(an_ir.nodes[i].id)
    \/ \E i \in DOMAIN an_ir.edges :
          IsEmptyId(an_ir.edges[i].src) \/ IsEmptyId(an_ir.edges[i].dst)

\* C12: for an IR with a node whose CanonicalId is empty, or an edge whose
\* src or dst CanonicalId is empty, validate_ir returns at least one error
\* that reports the empty id.
C12_EmptyIdReported ==
    (v_pc = "returned" /\ HasEmptyId(v_ir)) =>
        \E i \in DOMAIN v_errors :
            v_errors[i].message \in {S("IR node has empty canonical id"),
                                     S("Edge has empty src or dst canonical id")}

(* ------------------------------------------------------------------ *)
(* Claims: scan                                                        *)
(* ------------------------------------------------------------------ *)

\* C13: scan never ends by an exception, whichever collaborators fail.
C13_ScanCompletes == scan_pc # "raised"

\* The collaborators scan calls inside a try block.
Guarded == {"analyzer", "model", "enrich", "rules", "evaluate"}

ErrorsOfType(errors, type) == {i \in DOMAIN errors : errors[i].type = S(type)}

CoreStages ==
    {"merge", "normalize", "validate", "index", "compile", "evaluate",
     "baseline-compare", "diff"}

\* C16: a scan that returns has run merge, normalize, validate, index,
\* compile, evaluate and, when it has a baseline, baseline-compare and diff,
\* each once and in this order.
C16_StageOrder ==
    scan_pc = "returned" =>
        SelectSeq(stages, LAMBDA x : x \in CoreStages) =
            <<"merge", "normalize", "validate", "index", "compile", "evaluate">>
                \o (IF diff THEN <<"baseline-compare", "diff">> ELSE << >>)

(* ------------------------------------------------------------------ *)
(* Claims: order of compare's result                                   *)
(* ------------------------------------------------------------------ *)

StrictlyAscendingByKey(items) ==
    \A i, j \in DOMAIN items : i < j => key_for(items[i]) < key_for(items[j])

\* C17: new, existing and fixed are each in strictly ascending order of
\* violation key, whatever the order and the repetitions of the inputs.
C17_KeySorted ==
    cmp_pc = "done" =>
        /\ StrictlyAscendingByKey(result.new)
        /\ StrictlyAscendingByKey(result.existing)
        /\ StrictlyAscendingByKey(result.fixed)

\* C17 witness: compare was given two current violations in descending
\* order of key and a baseline holding one key twice, and returned two new
\* violations and one fixed.
C17_Witness ==
    /\ cmp_pc = "done"
    /\ Len(current) = 2 /\ key_for(current[1]) > key_for(current[2])
    /\ Len(baseline) = 2 /\ key_for(baseline[1]) = key_for(baseline[2])
    /\ Len(result.new) = 2 /\ Len(result.fixed) = 1

(* ------------------------------------------------------------------ *)
(* Claims about rules/parser.py                                        *)
(* ------------------------------------------------------------------ *)

\* The blocks of the text that start with rule:, and what parsing each of
\* them alone gives.
TextRuleBlocks == _split_rule_blocks(p_text)

BlockResult(k) == _parse_rule_block(TextRuleBlocks[k], FilenameOr(p_filename))

MalformedBlocks == { k \in DOMAIN TextRuleBlocks : BlockResult(k).raised }

FirstMalformed == CHOOSE k \in MalformedBlocks : \A j \in MalformedBlocks : k <= j

\* C18: when at least one rule block of the text is malformed, parse_text
\* returns no document: it raises a RulesParseError that carries the file
\* name, and the error is the one of the first malformed block in the order
\* of the text, whatever the blocks before and after it are.
C18_FailFast ==
    (parse_pc = "done" /\ MalformedBlocks # {}) =>
        /\ p_result.raised
        /\ p_result.error.type = "RulesParseError"
        /\ p_result.error.file = FilenameOr(p_filename)
        /\ p_result = BlockResult(FirstMalformed)

\* parse_text has raised on three rule blocks of which the first and the
\* last are well-formed and the one between them is not.
C18_Witness ==
    /\ parse_pc = "done"
    /\ Len(TextRuleBlocks) = 3
    /\ MalformedBlocks = {2}
    /\ p_result.raised
    /\ p_filename = S("rules.txt")

\* The items of a block that are written as mappings: a line "- field: F"
\* followed by the more indented lines "op: O" and "value: V".
MappingItemStarts(block) ==
    { i \in 1..(Len(block) - 2) :
        /\ Len(block[i].text) = 4
        /\ SubSeq(block[i].text, 1, 3) = <<Dash, "field", ":">>
        /\ block[i + 1].indent > block[i].indent
        /\ block[i + 1].text[1] = "op"
        /\ block[i + 2].indent = block[i + 1].indent
        /\ block[i + 2].text[1] = "value" }

RECURSIVE Ascending(_)
Ascending(set) ==
    IF set = {} THEN << >>
    ELSE LET least == CHOOSE i \in set : \A j \in set : i <= j
         IN  <<least>> \o Ascending(set \ {least})

\* The CompareAst the item starting at line i stands for.
MappingItemAst(block, i) ==
    CompareAst(FieldAst(<<block[i].text[4]>>),
               RestOf(block[i + 1].text),
               LiteralAst("string", PStr(RestOf(block[i + 2].text))))

ExpectedItems(block) ==
    LET starts == Ascending(MappingItemStarts(block))
    IN  [n \in DOMAIN starts |-> MappingItemAst(block, starts[n])]

\* C19: a text whose one rule block has its items under all or any written
\* as mappings is parsed without error, and the AndAst or OrAst of the rule
\* has exactly those items as CompareAst, in the order of the text.
C19_MappingItems ==
    (/\ parse_pc = "done"
     /\ Len(TextRuleBlocks) = 1
     /\ MappingItemStarts(TextRuleBlocks[1]) # {}) =>
        /\ ~p_result.raised
        /\ Len(p_result.value.rules) = 1
        /\ p_result.value.rules[1].when.predicate.ast \in {"AndAst", "OrAst"}
        /\ p_result.value.rules[1].when.predicate.items = ExpectedItems(TextRuleBlocks[1])

\* The line "when:" of a block, and the keys written under it.
WhenLines(block) == { i \in DOMAIN block : block[i].text # << >> /\ block[i].text[1] = "when" }

WhenLine(block) == CHOOSE i \in WhenLines(block) : TRUE

WhenIsMapping(block) ==
    /\ RestOf(block[WhenLine(block)].text) = << >>
    /\ WhenLine(block) < Len(block)
    /\ block[WhenLine(block) + 1].indent > block[WhenLine(block)].indent

WhenKeys(block) ==
    { KeyOf(block[i].text) :
        i \in { j \in (WhenLine(block) + 1)..Len(block) :
                    block[j].indent = block[WhenLine(block) + 1].indent } }

PredicateKeys == { S("all"), S("any"), S("not") }

AstOfKey(key) ==
    IF key = S("all") THEN "AndAst" ELSE IF key = S("any") THEN "OrAst" ELSE "NotAst"

\* C20: a text whose one rule block has id, name and when is accepted only
\* if its when is a mapping with exactly one of the keys all, any, not, the
\* predicate then being the AndAst, OrAst or NotAst of that key; a when
\* that is no mapping or has none of the three keys is a RulesParseError.
C20_WhenShape ==
    (/\ parse_pc = "done"
     /\ Len(TextRuleBlocks) = 1
     /\ WhenLines(TextRuleBlocks[1]) # {}) =>
        LET block == TextRuleBlocks[1]
            keys == IF WhenIsMapping(block) THEN WhenKeys(block) \cap PredicateKeys ELSE {}
        IN  /\ ~p_result.raised =>
                /\ Cardinality(keys) = 1
                /\ \A key \in keys : p_result.value.rules[1].when.predicate.ast = AstOfKey(key)
            /\ keys = {} =>
                /\ p_result.raised
                /\ p_result.error.type = "RulesParseError"

\* The blocks of the text, separated by blank lines, and those of them
\* whose first line is rule:.
TextBlocks == SplitLoop(p_text, << >>, << >>)

StartsWithRule(block) == Stripped(block[1]) = RuleLine

BlocksWithRule == SelectSeq(TextBlocks, StartsWithRule)

\* C21: when parse_text returns, the document holds one RuleAst for each
\* block whose first line is rule:, in the order of the text; and what
\* parse_text gives is what it gives on the text without the other
\* blocks, so those are ignored without error.
C21_BlockSelection ==
    parse_pc = "done" =>
        /\ ~p_result.raised =>
              /\ Len(p_result.value.rules) = Len(BlocksWithRule)
              /\ \A n \in DOMAIN BlocksWithRule :
                    p_result.value.rules[n] =
                        _parse_rule_block(BlocksWithRule[n], FilenameOr(p_filename)).value
        /\ p_result = parse_text(TextOf(BlocksWithRule), p_filename)

\* parse_text has returned two rules, r1 then r5, from a text with a block
\* that does not start with rule: between their two blocks.
C21_Witness ==
    /\ parse_pc = "done"
    /\ Len(TextBlocks) = 3
    /\ StartsWithRule(TextBlocks[1]) /\ ~StartsWithRule(TextBlocks[2]) /\ StartsWithRule(TextBlocks[3])
    /\ ~p_result.raised
    /\ Len(p_result.value.rules) = 2
    /\ p_result.value.rules[1].id = S("r1")
    /\ p_result.value.rules[2].id = S("r5")

(* ------------------------------------------------------------------ *)
(* Claims about the parser, on the texts of one rule                   *)
(* ------------------------------------------------------------------ *)

\* The text is the one rule whose item is written in that style with that
\* operator and that value.
ItemIs(style, op, value) ==
    /\ Len(p_text) >= 7 + Len(ItemBody(style, op, value))
    /\ SubSeq(p_text, 8, 7 + Len(ItemBody(style, op, value))) = ItemBody(style, op, value)

\* The predicate of the only rule returned, and the item of it.
OnlyPredicate == p_result.value.rules[1].when.predicate

OnlyItem ==
    IF OnlyPredicate.ast = "NotAst" THEN OnlyPredicate.item ELSE OnlyPredicate.items[1]

\* C22: an item written as the string "layer <op> <value>" with one of the
\* operators ==, !=, in, not in, matches is parsed into the CompareAst of
\* the field layer, that operator and that value as literal; an item of
\* fewer than 3 whitespace-separated tokens is a RulesParseError.
C22_InlineItems ==
    parse_pc = "done" =>
        \A op \in ItemOps, value \in ItemValues :
            ItemIs("all", op, value) =>
                /\ op \in SupportedOps =>
                      /\ ~p_result.raised
                      /\ OnlyItem = CompareAst(FieldAst(S("layer")), op,
                                               _parse_literal(PStr(value)))
                /\ Len(WhitespaceParts(<<"layer">> \o op \o value)) < 3 =>
                      /\ p_result.raised
                      /\ p_result.error.type = "RulesParseError"

\* The literal a value stands for: a list for [..], a bool or a number
\* when it reads as one, a string otherwise.
TypedLiteral(value) ==
    IF value = <<"[", "]">> THEN LiteralAst("list", PList(<< >>))
    ELSE IF value = <<"[", "infra", ",", "db", "]">>
    THEN LiteralAst("list", PList(<<PStr(S("infra")), PStr(S("db"))>>))
    ELSE IF value = <<"true">> THEN LiteralAst("bool", PBool(TRUE))
    ELSE IF value = <<"42">> THEN LiteralAst("number", PNumber(42))
    ELSE LiteralAst("string", PStr(value))

\* C23: the value of an item that was parsed with its operator as written
\* becomes the list literal of its comma-separated elements when it is
\* written [..], a bool or number literal when it reads as a boolean or a
\* number, and a string literal otherwise.
C23_LiteralTyping ==
    parse_pc = "done" =>
        \A style \in ItemStyles, op \in SupportedOps, value \in ItemValues :
            (ItemIs(style, op, value) /\ ~p_result.raised /\ OnlyItem.op = op) =>
                OnlyItem.right = TypedLiteral(value)

\* The values written for severity, action and target in the one rule.
WrittenSeverity == p_text[4].text[3]

WrittenAction == p_text[5].text[3]

WrittenTarget == p_text[6].text[3]

\* C24: a rule whose severity, action or target is outside its enumeration
\* is rejected by the parser, or is handed on with the value as written so
\* that it can be rejected later; an unknown target is not turned into one
\* of the two valid targets.
C24_EnumsValidated ==
    (parse_pc = "done" /\ ~p_result.raised) =>
        /\ WrittenSeverity \notin {"error", "warning", "info"} =>
              p_result.value.rules[1].severity = S(WrittenSeverity)
        /\ WrittenAction \notin {"forbid", "allow", "require"} =>
              p_result.value.rules[1].action = S(WrittenAction)
        /\ WrittenTarget \notin {"dependency", "node"} =>
              p_result.value.rules[1].when.ast \notin {"DependencyWhenAst", "NodeWhenAst"}

\* C30: a field line indented less than the first field line of the block
\* is in the rule that was parsed, or the block is a RulesParseError.
C30_NoLineDropped ==
    (parse_pc = "done" /\ \E i \in DOMAIN p_text : p_text[i] = DedentedLine) =>
        \/ p_result.raised
        \/ p_result.value.rules[1].message = RestOf(DedentedLine.text)


(* ------------------------------------------------------------------ *)
(* Claims: the baseline snapshot and the store                         *)
(* ------------------------------------------------------------------ *)

\* A baseline ref is configured and the store scan was called on does not
\* hold it.
BaselineMissing == cfg.baseline # None /\ ~StoreExists(store0, cfg.baseline)

BaselineErrors == {i \in DOMAIN engine_errors : engine_errors[i] = BaselineNotFoundError}

\* C27: when a baseline ref is configured and the store does not hold it, scan
\* has added exactly one EngineError, of type config_error, for it; it has
\* loaded no baseline snapshot, made no diff and marked no status, its
\* violations being those evaluate returned; it is never left by load, diff or
\* mark_status; and when it returns it has saved its snapshot under "latest"
\* and built the report, with no diff. A diff is made only when a baseline
\* ref is configured and the store holds it.
C27_MissingBaseline ==
    /\ (BaselineMissing /\ scan_pc \in {"save", "report", "returned"}) =>
          /\ Cardinality(BaselineErrors) = 1
          /\ BaselineNotFoundError.type = S("config_error")
          /\ engine_errors[Len(engine_errors)] = BaselineNotFoundError
          /\ baseline_snapshot = None
          /\ ~diff
          /\ "diff" \notin Range(stages) /\ "baseline-compare" \notin Range(stages)
          /\ violations = (IF "evaluate" \in failed THEN << >> ELSE EvaluateAll(ruleset))
    /\ (BaselineMissing /\ scan_pc = "raised") =>
          failed \cap {"store.load", "diff", "mark_status"} = {}
    /\ (BaselineMissing /\ scan_pc = "returned") =>
          /\ saved = S("latest")
          /\ StoreExists(store, S("latest")) /\ store[S("latest")] = scan_no
          /\ report.built /\ ~report.diff
          /\ report.engine_errors = engine_errors
          /\ report.violations = violations
    /\ diff => (cfg.baseline # None /\ StoreExists(store0, cfg.baseline))

\* C27 witness: scan has returned with violations on a store that holds a
\* ref other than the configured one.
C27_Witness ==
    /\ scan_pc = "returned"
    /\ cfg.baseline = S("main")
    /\ DOMAIN store0 = {S("latest")}
    /\ violations # << >>
    /\ Cardinality(BaselineErrors) = 1
    /\ ~diff

\* C28: the baseline snapshot scan loads is the one the store held under the
\* configured ref when scan was called, never the snapshot of this call;
\* nothing is saved before the baseline step is over; a scan that returns
\* has saved exactly once and leaves its own snapshot under "latest"; and
\* with baseline "latest", after a call that returned, the snapshot loaded
\* is that call's.
C28_BaselineBeforeSave ==
    /\ baseline_snapshot # None =>
          /\ StoreExists(store0, cfg.baseline)
          /\ baseline_snapshot = StoreLoad(store0, cfg.baseline)
          /\ baseline_snapshot # IntValue(scan_no)
    /\ scan_pc \notin {"report", "returned", "raised"} =>
          (saves = 0 /\ store = store0)
    /\ scan_pc = "returned" =>
          /\ saves = 1
          /\ StoreExists(store, S("latest")) /\ store[S("latest")] = scan_no
          /\ \A r \in DOMAIN store0 \ {S("latest")} : store[r] = store0[r]
    /\ (baseline_snapshot # None /\ cfg.baseline = S("latest") /\ previous = "returned") =>
          baseline_snapshot = IntValue(scan_no - 1)

\* C28 witness: the second call, with baseline "latest", has returned after
\* the first returned: it was compared with the first call's snapshot and
\* left its own under "latest".
C28_Witness ==
    /\ scan_no = 2 /\ previous = "returned"
    /\ cfg.baseline = S("latest")
    /\ scan_pc = "returned"
    /\ baseline_snapshot = IntValue(1)
    /\ diff
    /\ store[S("latest")] = 2


(* ------------------------------------------------------------------ *)
(* Claims: exception predicates that raise                             *)
(* ------------------------------------------------------------------ *)

\* An exception predicate of r raises on e.
ExceptionRaises(r, e) == \E j \in DOMAIN r.except_when : r.except_when[j][e] = "RAISE"

Reported(r, e) == \E k \in DOMAIN contrib : HasIdentity(contrib[k], r, e)

\* C29: an exception predicate that raises on an element does not end the
\* evaluation and does not exclude the element: a FORBID rule whose
\* predicate holds on it reports the element unless another exception
\* predicate, before or after the raising one, returns true on it.
C29_RaisingExceptions ==
    /\ (pos >= 1 /\ HasTarget(last_rule)
            /\ \E e \in Range(TargetElems(idx, last_rule)) : ExceptionRaises(last_rule, e))
       => eval_pc # "raised"
    /\ (AfterIteration /\ HasTarget(last_rule) /\ last_rule.action = FORBID) =>
          \A e \in Range(TargetElems(idx, last_rule)) :
              (ExceptionRaises(last_rule, e) /\ last_rule.when[e] = "T") =>
                  (Reported(last_rule, e) <=> ~Excluded(last_rule, e))

\* C29 witness: a FORBID rule with two exception predicates, the first
\* raising and the second false on a node and true on another, has reported
\* the one and not the other.
C29_Witness ==
    /\ AfterIteration /\ last_rule.action = FORBID /\ last_rule.target = NODE
    /\ Len(idx.nodes) = 2
    /\ Len(last_rule.except_when) = 2
    /\ \A e \in NodeUniverse :
          last_rule.when[e] = "T" /\ last_rule.except_when[1][e] = "RAISE"
    /\ last_rule.except_when[2][idx.nodes[1]] = "F"
    /\ last_rule.except_when[2][idx.nodes[2]] = "T"
    /\ Len(contrib) = 1
    /\ Reported(last_rule, idx.nodes[1])
    /\ ~Reported(last_rule, idx.nodes[2])


(* ------------------------------------------------------------------ *)
(* Claims: analyzer/scanner.py                                         *)
(* ------------------------------------------------------------------ *)

AfterModule == sc_pc \in {"loop", "returned"} /\ sc_module # NoModule

\* The (import, rule) positions of the last module that give a violation.
ImportHits ==
    {h \in (DOMAIN sc_module.imports) \X (DOMAIN sc_rule_set) :
        /\ sc_rule_set[h[2]].rule_type = MODULES
        /\ ModuleRule_applies_to_module(ValueOf(sc_rule_set[h[2]].module_rule), sc_module.name)
        /\ violates_import(ValueOf(sc_rule_set[h[2]].module_rule),
                           _import_to_fqname(sc_module.imports[h[1]], sc_module.name))}

\* The (class, rule) positions of the last module that give a violation.
ClassHits ==
    {h \in (DOMAIN sc_module.classes) \X (DOMAIN sc_rule_set) :
        /\ sc_rule_set[h[2]].rule_type = CLASSES
        /\ ClassRule_applies_to_module(ValueOf(sc_rule_set[h[2]].class_rule), sc_module.name)
        /\ violates_class(ValueOf(sc_rule_set[h[2]].class_rule), sc_module.classes[h[1]])}

ImportViolationAt(h) == ImportViolation(sc_rule_set[h[2]], sc_module.imports[h[1]])

ClassViolationAt(h) == ClassViolation(sc_rule_set[h[2]], sc_module.classes[h[1]])

Occurrences(seq, x) == Cardinality({j \in DOMAIN seq : seq[j] = x})

RelativeTarget(imp, current_module) ==
    LET parts == SplitDots(current_module)
        kept == IF Len(parts) > imp.level THEN SubSeq(parts, 1, Len(parts) - imp.level)
                ELSE << >>
        path == (IF imp.from_module # None THEN <<imp.from_module>> ELSE << >>)
                    \o <<imp.import_module>>
    IN  JoinDots(kept \o path)

\* C26: the fqname of a relative import of level L in a module of n
\* components is the module's first n - L components followed by the
\* imported path, with the from_module in the path when the import names one.
C26_RelativeImports ==
    AfterModule =>
        \A i \in DOMAIN sc_module.imports :
            sc_module.imports[i].level >= 1 =>
                _import_to_fqname(sc_module.imports[i], sc_module.name)
                    = RelativeTarget(sc_module.imports[i], sc_module.name)

====
